---- MODULE Spec2Model ----
(***************************************************************************)
(* Reconciliation engine of the webhook service: the invoice-created and   *)
(* payment-received handlers of server.js over the Supabase ledger         *)
(* (invoiceService), the Confido billing gateway and the GHL CRM, the      *)
(* task-completion stage move (ghlOpportunityService) and the bounded      *)
(* poller.  Every await of a handler is one step of a handler task, so     *)
(* concurrent deliveries interleave at the awaits as they do in Node.      *)
(***************************************************************************)
EXTENDS Integers, Sequences, FiniteSets, TLC

\* ------------------------------------------------------------------ bounds
\* webhook deliveries accepted in one behaviour, one after the other
MaxDeliveries == 3
\* webhook deliveries accepted in one behaviour when they may overlap
MaxOverlap == 2

\* task-completed deliveries in a behaviour of the stage protocol
MaxStageDeliveries == 2
\* largest maxAttempts a caller hands to pollUntil (observed: 6)
MaxPollAttempts == 6
\* webhook deliveries of any kind accepted in one behaviour of the ingestor
MaxIngest == 3
\* rows of ghl_task_list configured for one stage name
MaxStageTasks == 2
\* custom-object invoice deliveries accepted in one behaviour
MaxCustom == 2
\* deliveries accepted in one behaviour of the ledger's writers
MaxLedger == 3
\* deliveries accepted in one behaviour of opportunity resolution
MaxResolve == 2
\* overlapping deliveries accepted in one behaviour of the survey handler
MaxSurvey == 2

\* ---------------------------------------------------------------- domains
\* JS null / undefined / missing payload field
NULL == "null"
\* concurrently running handler invocations
Tasks == {"t1", "t2"}
\* the CRM opportunities that exist at start-up
OppIds == {"O1", "O2"}
\* CRM contacts: C1 owns the opportunities of start-up, C2 owns none
ContactIds == {"C1", "C2"}
\* pipelines and pipeline stages of the CRM
Pipelines == {"PL1", "PL2"}
Stages == {"S1", "S2", "S3"}
StageNames == {"Intake", "Closed"}
\* CRM invoice ids carried by invoice-created payloads
GhlIds == {"INV1", "INV2"}
\* billing payment ids carried by payment payloads
PaymentIds == {"P1", "P2"}
\* the pipeline (GHL_PIPELINE_ID unset: the default id, the pipeline the
\* survey moves into) and the stage "Pending Contact" a form submission's
\* opportunity is created in
IntakePipeline == "PL2"
PendingContactStage == "S4"

\* ------------------------------------------------------------------ state
VARIABLES
  invoices,     \* ledger table invoices: set of rows
  payments,     \* ledger table confido_payments: set of rows
  nextRowId,    \* serial of the invoices table (column id)
  nextPayId,    \* serial of the confido_payments table (column id)
  cfClients,    \* clients created in the billing system
  cfMatters,    \* matters created in the billing system
  cfLinks,      \* payment links of the billing system: [id, ghl]
  crmPayments,  \* payments recorded on CRM invoices (recordInvoicePayment)
  crmTasks,     \* notification tasks created in the CRM (createTask)
  crmObjects,   \* CRM custom objects the payment URL was mirrored into: [ghl, url]
  task,         \* per handler invocation: position and locals
  opps,         \* CRM opportunities by id: contact, status, pipeline and stage
  mappings,     \* ledger table stage_completion_mappings (configuration)
  delivered,    \* deliveries accepted so far
  last,         \* payload and response of the delivery that responded last
  poll          \* the running pollUntil call of the Consistency Poller

vars == <<invoices, payments, nextRowId, nextPayId, cfClients, cfMatters,
          cfLinks, crmPayments, crmTasks, crmObjects, task, opps, mappings, delivered, last,
          poll>>

ledgerVars == <<invoices, payments, nextRowId, nextPayId>>
billingVars == <<cfClients, cfMatters, cfLinks>>
crmVars == <<crmPayments, crmTasks, crmObjects>>
stageVars == <<opps, mappings>>

\* ---------------------------------------------------------------- helpers
\* JS `a || b` on a number (0 and a missing value are falsy)
OrNum(a, b) == IF a = 0 THEN b ELSE a
\* JS `a || b` on a string (null, undefined and '' are falsy)
OrStr(a, b) == IF a = NULL THEN b ELSE a

NoCf == [client |-> 0, matter |-> 0, link |-> 0, status |-> NULL, paid |-> 0]
NoResp == [code |-> 0, msg |-> NULL, url |-> 0, error |-> NULL]
NoStage == [pipeline |-> NULL, stage |-> NULL]
NoMapping == [source |-> NULL, active |-> FALSE, targetPipeline |-> NULL,
              targetStage |-> NULL]
NoSnap == [invoices |-> {}, payments |-> {}, crmPayments |-> 0, crmTasks |-> 0,
           clients |-> 0, matters |-> 0, links |-> {},
           stages |-> [o \in OppIds |-> NoStage]]

\* a pollUntil call at rest
IdlePoll == [pc |-> "idle", maxAttempts |-> 0, checks |-> <<>>, waits |-> 0,
             result |-> NULL, missing |-> {}]

\* an invocation: position, payload, the handler's locals (rowId is
\* supabaseResult.data.id, cf is confidoResult, inv is invoiceResult.data),
\* the response, the gateway calls made so far with their outcome, and what
\* the delivery met: the ledger and CRM at its start (pre), whether it
\* repeats the previous delivery (replay) and that delivery's response;
\* for task completion and survey found is the list the opportunity search
\* returned and opp the resolved opportunityId (for a form submission
\* opportunityResult.id), cur its fetched
\* pipeline and stage, mapping the mapping row read; for a stage change todo
\* counts the task rows still to create, queue holds their task numbers in
\* the order of the loop, tried the task numbers createGHLTask was called
\* for and created counts the tasks created; for the survey todo counts the
\* stage checks still to make
IdleTask == [pc |-> "idle", kind |-> NULL, ev |-> NULL, rowId |-> 0,
             cf |-> NoCf, inv |-> NULL, found |-> <<>>, opp |-> NULL, cur |-> NoStage,
             mapping |-> NoMapping, todo |-> 0, queue |-> <<>>, tried |-> <<>>,
             created |-> 0, missing |-> {},
             resp |-> NoResp, calls |-> <<>>,
             replay |-> FALSE, pre |-> NoSnap, preResp |-> NoResp]

RowsByGhl(g) == {r \in invoices : r.ghl = g}
RowsByConfido(c) == {r \in invoices : r.confInv = c}
PaymentRowsById(p) == {r \in payments : r.pid = p}

\* ------------------------------------------------- ledger: invoiceService
\* the record saveInvoiceToSupabase builds from invoiceData (id is the
\* table's serial column, set by the table)
InvoiceRecord(d) ==
  [id |-> 0,
   ghl |-> d.ghlInvoiceId,
   opp |-> d.opportunityId,
   confInv |-> OrNum(d.confidoInvoiceId, 0),
   confClient |-> OrNum(d.confidoClientId, 0),
   confMatter |-> OrNum(d.confidoMatterId, 0),
   paymentUrl |-> OrNum(d.paymentUrl, 0),
   amountDue |-> d.amountDue,
   amountPaid |-> OrNum(d.amountPaid, 0),
   status |-> OrStr(d.status, "pending"),
   paidDate |-> OrStr(d.paidDate, NULL)]

\* a plain insert: a second row for a key already present
InsertInvoiceRow(rows, rec, serial) ==
  rows \cup {[rec EXCEPT !.id = serial + Cardinality(rows)]}

\* delete the row of the key, then insert the record as a new row
ReplaceInvoiceRow(rows, rec, serial) ==
  {r \in rows : r.ghl # rec.ghl} \cup {[rec EXCEPT !.id = serial + Cardinality(rows)]}

\* supabase.from('invoices').upsert(record, {onConflict: 'ghl_invoice_id'}):
\* the row with the record's ghl_invoice_id takes the record's columns and
\* keeps its id; without such a row a new one is inserted under the serial
UpsertInvoiceRow(rows, rec, serial) ==
  IF \E r \in rows : r.ghl = rec.ghl
    THEN {r \in rows : r.ghl # rec.ghl}
         \cup {[rec EXCEPT !.id = r.id] : r \in {q \in rows : q.ghl = rec.ghl}}
    ELSE rows \cup {[rec EXCEPT !.id = serial]}

\* the values the serial may have after the upsert: it advances when the
\* upsert inserted; when the upsert met the row, the table's id sequence
\* (no schema is under src/) was either drawn from or left alone
SerialAfter(rows, rec, serial) ==
  IF \E r \in rows : r.ghl = rec.ghl THEN {serial, serial + 1} ELSE {serial + 1}

\* the invoiceData the handler passes before billing artifacts exist
FirstSaveData(e) ==
  [ghlInvoiceId |-> e.ghl, opportunityId |-> e.opp,
   confidoInvoiceId |-> 0, confidoClientId |-> 0, confidoMatterId |-> 0,
   paymentUrl |-> 0, amountDue |-> e.amountDue, amountPaid |-> 0,
   status |-> e.status, paidDate |-> NULL]

\* the invoiceData the handler passes once the billing artifacts exist
SecondSaveData(e, cf) ==
  [ghlInvoiceId |-> e.ghl, opportunityId |-> e.opp,
   confidoInvoiceId |-> cf.link, confidoClientId |-> cf.client,
   confidoMatterId |-> cf.matter,
   paymentUrl |-> 0, amountDue |-> e.amountDue, amountPaid |-> OrNum(cf.paid, 0),
   status |-> OrStr(cf.status, "unpaid"), paidDate |-> NULL]

\* the record savePaymentToSupabase builds from paymentData (id is the
\* table's serial column, set by the table)
PaymentRecord(d) ==
  [id |-> 0,
   pid |-> d.confidoPaymentId,
   confInv |-> d.confidoInvoiceId,
   ghl |-> d.ghlInvoiceId,
   opp |-> d.ghlOpportunityId,
   amount |-> d.amount,
   method |-> d.paymentMethod,
   status |-> OrStr(d.status, "completed")]

\* supabase.from('confido_payments').upsert(record,
\*   {onConflict: 'confido_payment_id', ignoreDuplicates: false}): the row
\* of that payment id takes the record's columns and keeps its id
UpsertPaymentRow(rows, rec, serial) ==
  IF \E r \in rows : r.pid = rec.pid
    THEN {r \in rows : r.pid # rec.pid}
         \cup {[rec EXCEPT !.id = r.id] : r \in {q \in rows : q.pid = rec.pid}}
    ELSE rows \cup {[rec EXCEPT !.id = serial]}

\* the values the serial of confido_payments may have after the upsert
PaySerialAfter(rows, rec, serial) ==
  IF \E r \in rows : r.pid = rec.pid THEN {serial, serial + 1} ELSE {serial + 1}

\* an update that adds the payment to what was paid before
AddPaid(rows, c, amount, date) ==
  {IF r.confInv = c
     THEN [r EXCEPT !.amountPaid = @ + amount, !.status = "paid", !.paidDate = date]
     ELSE r : r \in rows}

\* updateInvoicePaymentStatus: .update(updateData).eq('confido_invoice_id', c)
UpdatePaid(rows, c, amount, date) ==
  {IF r.confInv = c
     THEN [r EXCEPT !.amountPaid = amount, !.status = "paid", !.paidDate = date]
     ELSE r : r \in rows}

\* ----------------------------------------------------------- payloads
\* invoice-created payloads after extraction into webhookData: two for the
\* same CRM invoice that differ in invoice.status, one for another invoice
\* without an opportunity, one without invoice id, one without amount;
\* contactId and contactName are contactDetails.id and contactDetails.name,
\* and the first payload names the contact without carrying the name
InvoicePayloads ==
  {[ghl |-> "INV1", amountDue |-> 2, status |-> NULL, opp |-> "O1",
    contactId |-> "C1", contactName |-> NULL],
   [ghl |-> "INV1", amountDue |-> 2, status |-> "sent", opp |-> "O1",
    contactId |-> "C1", contactName |-> "Ann Lee"],
   [ghl |-> "INV2", amountDue |-> 2, status |-> NULL, opp |-> NULL,
    contactId |-> NULL, contactName |-> NULL],
   [ghl |-> NULL, amountDue |-> 2, status |-> NULL, opp |-> "O1",
    contactId |-> "C1", contactName |-> NULL],
   [ghl |-> "INV1", amountDue |-> 0, status |-> NULL, opp |-> "O1",
    contactId |-> "C1", contactName |-> NULL]}

\* payment-received payloads after extraction into paymentData, with the
\* signature header of the request: the signed well-formed ones, an unsigned
\* one, and one per rejection
PaymentPayloads ==
  [pid : PaymentIds, confInv : {1, 2}, amount : {1, 2},
   method : {"card"}, status : {NULL}, sig : {"valid"}]
  \cup
  {[pid |-> "P1", confInv |-> 1, amount |-> 1, method |-> "ach", status |-> "refunded", sig |-> "none"],
   [pid |-> "P1", confInv |-> 1, amount |-> 1, method |-> "card", status |-> NULL, sig |-> "invalid"],
   [pid |-> NULL, confInv |-> 1, amount |-> 1, method |-> "card", status |-> NULL, sig |-> "valid"],
   [pid |-> "P1", confInv |-> 0, amount |-> 1, method |-> "card", status |-> NULL, sig |-> "valid"],
   [pid |-> "P1", confInv |-> 1, amount |-> 0, method |-> "card", status |-> NULL, sig |-> "valid"]}

\* the rows the stage_completion_mappings table may hold
MappingRules ==
  {[source |-> "S1", active |-> TRUE, targetPipeline |-> "PL2", targetStage |-> "S2"],
   [source |-> "S2", active |-> TRUE, targetPipeline |-> "PL2", targetStage |-> "S3"],
   [source |-> "S1", active |-> FALSE, targetPipeline |-> "PL1", targetStage |-> "S3"],
   [source |-> "S3", active |-> TRUE, targetPipeline |-> "PL2", targetStage |-> NULL]}

TypeOK ==
  /\ nextRowId \in Nat /\ nextPayId \in Nat
  /\ cfClients \in Nat /\ cfMatters \in Nat
  /\ crmPayments \in Nat /\ crmTasks \in Nat
  /\ delivered \in Nat
  /\ \A t \in Tasks : task[t].pc \in
       {"idle", "done", "inv_contact", "inv_save1", "cf_client", "cf_matter", "cf_link",
        "inv_save2", "pay_lookup", "pay_update", "pay_save", "pay_mirror",
        "pay_task", "tc_search", "tc_get", "tc_mapping", "tc_update",
        "sc_tasks", "sc_create", "sv_search", "sv_check", "sv_update",
        "co_save", "co_poll", "co_update", "co_mirror", "del_update",
        "if_contact", "if_find", "if_updatec", "if_opp", "if_pdf",
        "if_pdf_download", "if_pdf_upload"}
  /\ OppIds \subseteq DOMAIN opps
  /\ \A o \in DOMAIN opps :
       /\ opps[o].stage \in Stages \cup {PendingContactStage}
       /\ opps[o].pipeline \in Pipelines
       /\ opps[o].contact \in ContactIds
  /\ mappings \subseteq MappingRules
  /\ poll.pc \in {"idle", "check", "wait", "returned"}
  /\ poll.maxAttempts \in 0..MaxPollAttempts
  /\ poll.result \in {NULL, "Complete", "Exhausted"}
  /\ \A o \in crmObjects : o.ghl \in GhlIds

Init ==
  /\ invoices = {}
  /\ payments = {}
  /\ nextRowId = 1
  /\ nextPayId = 1
  /\ cfClients = 0
  /\ cfMatters = 0
  /\ cfLinks = {}
  /\ crmPayments = 0
  /\ crmTasks = 0
  /\ crmObjects = {}
  /\ task = [t \in Tasks |-> IdleTask]
  /\ opps = [o \in OppIds |-> [contact |-> "C1", status |-> "open",
                                pipeline |-> "PL1", stage |-> "S1"]]
  /\ mappings = {}
  /\ delivered = 0
  /\ last = [kind |-> NULL, ev |-> NULL, resp |-> NoResp]
  /\ poll = IdlePoll

Free(t) == task[t].pc = "idle"

\* the delivery of payload e repeats the delivery that responded last
IsReplay(kind, e) == last.kind = kind /\ last.ev = e

\* a fresh invocation for payload e
Fresh(kind, e) ==
  [IdleTask EXCEPT !.kind = kind, !.ev = e,
     !.replay = IsReplay(kind, e),
     !.preResp = IF IsReplay(kind, e) THEN last.resp ELSE NoResp,
     !.pre = [invoices |-> invoices, payments |-> payments,
              crmPayments |-> crmPayments, crmTasks |-> crmTasks,
              clients |-> cfClients, matters |-> cfMatters, links |-> cfLinks,
              stages |-> [o \in DOMAIN opps |-> [pipeline |-> opps[o].pipeline,
                                                 stage |-> opps[o].stage]]]]

\* the gateway call `name` was made and succeeded or failed
Call(r, name, ok) == [r EXCEPT !.calls = Append(@, [op |-> name, ok |-> ok])]

Response(code, msg, url, error) ==
  [code |-> code, msg |-> msg, url |-> url, error |-> error]

\* a validation failure answered before the first await
Reject(t, kind, e, code, msg) ==
  /\ task' = [task EXCEPT ![t] =
       [Fresh(kind, e) EXCEPT !.pc = "done", !.resp = Response(code, msg, 0, NULL)]]
  /\ last' = [kind |-> kind, ev |-> e, resp |-> Response(code, msg, 0, NULL)]

\* the handler's res.json / res.status().json: the invocation ends
Finish(t, r, resp) ==
  /\ task' = [task EXCEPT ![t] =
       [r EXCEPT !.pc = "done", !.resp = resp, !.rowId = 0, !.cf = NoCf, !.inv = NULL,
          !.mapping = NoMapping]]
  /\ last' = [kind |-> task[t].kind, ev |-> task[t].ev, resp |-> resp]

\* the handler goes on to its next await
Goto(t, r, pc) ==
  /\ task' = [task EXCEPT ![t] = [r EXCEPT !.pc = pc]]
  /\ UNCHANGED last

\* the error a failing gateway call reports
GatewayError == "GatewayError"

\* ------------------------------- POST /webhooks/ghl/invoice-created
\* extraction and validation, up to the first await
ReceiveInvoice(t, e) ==
  /\ Free(t)
  /\ delivered' = delivered + 1
  /\ IF e.ghl = NULL
       THEN Reject(t, "invoice", e, 400, "Missing required field: invoice ID")
       ELSE IF e.amountDue <= 0
         THEN Reject(t, "invoice", e, 400, "Missing or invalid amount due")
         ELSE /\ task' = [task EXCEPT ![t] =
                   [Fresh("invoice", e) EXCEPT
                      !.pc = IF e.contactId # NULL /\ e.contactName = NULL
                               THEN "inv_contact" ELSE "inv_save1"]]
              /\ UNCHANGED last
  /\ UNCHANGED <<ledgerVars, billingVars, crmVars, stageVars, poll>>

\* ghlService.getContact for a payload with contactId and no contact name:
\* the name read goes into primary_contact_name, a failure is caught, and
\* the handler goes on to the first save either way
GetContact(t, ok) ==
  /\ task[t].pc = "inv_contact"
  /\ Goto(t, Call(task[t], "getContact", ok), "inv_save1")
  /\ UNCHANGED <<ledgerVars, billingVars, crmVars, delivered, stageVars, poll>>

\* an insert instead of an upsert: the unique key rejects a second write
InvoiceInsertConflict(rows, rec) == \E r \in rows : r.ghl = rec.ghl

\* the unique key of the invoices table rejects the write: never, since the
\* upsert resolves the conflict on ghl_invoice_id by updating
InvoiceWriteConflict(rows, rec) == FALSE

\* a handler that does not look at supabaseResult.success
SaveInvoiceFirstUnchecked(t, ok) ==
  /\ task[t].pc = "inv_save1"
  /\ LET rec == InvoiceRecord(FirstSaveData(task[t].ev))
         rows == UpsertInvoiceRow(invoices, rec, nextRowId)
     IN /\ invoices' = IF ok THEN rows ELSE invoices
        /\ nextRowId' \in IF ok THEN SerialAfter(invoices, rec, nextRowId) ELSE {nextRowId}
        /\ Goto(t, Call(task[t], "saveInvoice", ok), "cf_client")
  /\ UNCHANGED <<payments, nextPayId, billingVars, crmVars, delivered, stageVars, poll>>

\* a handler that issues the first save again when it failed
SaveInvoiceFirstRetried(t, ok) ==
  /\ task[t].pc = "inv_save1"
  /\ LET rec == InvoiceRecord(FirstSaveData(task[t].ev))
         rows == UpsertInvoiceRow(invoices, rec, nextRowId)
     IN IF ok
          THEN /\ invoices' = rows
               /\ nextRowId' \in SerialAfter(invoices, rec, nextRowId)
               /\ Goto(t, [Call(task[t], "saveInvoice", TRUE) EXCEPT
                             !.rowId = (CHOOSE r \in rows : r.ghl = rec.ghl).id],
                       "cf_client")
          ELSE /\ IF \E i \in 1..Len(task[t].calls) :
                         task[t].calls[i] = [op |-> "saveInvoice", ok |-> FALSE]
                    THEN Finish(t, Call(task[t], "saveInvoice", FALSE),
                                Response(500, "Failed to save invoice to database", 0,
                                         GatewayError))
                    ELSE Goto(t, Call(task[t], "saveInvoice", FALSE), "inv_save1")
               /\ UNCHANGED <<invoices, nextRowId>>
  /\ UNCHANGED <<payments, nextPayId, billingVars, crmVars, delivered, stageVars, poll>>

\* first saveInvoiceToSupabase; ok = FALSE is a failing Supabase call
SaveInvoiceFirst(t, ok) ==
  /\ task[t].pc = "inv_save1"
  /\ LET rec == InvoiceRecord(FirstSaveData(task[t].ev))
         rows == UpsertInvoiceRow(invoices, rec, nextRowId)
         conflict == InvoiceWriteConflict(invoices, rec)
     IN IF ok /\ ~conflict
          THEN /\ invoices' = rows
               /\ nextRowId' \in SerialAfter(invoices, rec, nextRowId)
               /\ Goto(t, [Call(task[t], "saveInvoice", TRUE) EXCEPT
                             !.rowId = (CHOOSE r \in rows : r.ghl = rec.ghl).id],
                       "cf_client")
          ELSE /\ Finish(t, Call(task[t], "saveInvoice", FALSE),
                         Response(500, "Failed to save invoice to database", 0,
                                  IF conflict THEN "DuplicateKey" ELSE GatewayError))
               /\ UNCHANGED <<invoices, nextRowId>>
  /\ UNCHANGED <<payments, nextPayId, billingVars, crmVars, delivered, stageVars, poll>>

\* a handler that deletes the row it saved when the billing system fails
RolledBackOnFailure(rows, g) == {r \in rows : r.ghl # g}

\* the invoices table after confidoResult.success was false: the handler
\* returns without a ledger call
KeptOnFailure(rows, g) == rows

\* the handler's answer when confidoResult.success is false: 200, the ledger
\* row stays, confidoError carries the reason
ConfidoFailed(t, name, error) ==
  /\ Finish(t, Call(task[t], name, FALSE),
            Response(200, "Invoice saved but Confido creation failed", 0, error))
  /\ invoices' = KeptOnFailure(invoices, task[t].ev.ghl)

\* a createInvoice that goes on to the matter although the client failed
ConfidoCreateClientThenMatter(t, ok) ==
  /\ task[t].pc = "cf_client"
  /\ cfClients' = IF ok THEN cfClients + 1 ELSE cfClients
  /\ Goto(t, [Call(task[t], "createClient", ok) EXCEPT
                !.cf.client = IF ok THEN cfClients + 1 ELSE 0], "cf_matter")
  /\ UNCHANGED <<ledgerVars, cfMatters, cfLinks, crmVars, delivered, stageVars, poll>>

\* confidoService.createInvoice, step 1: the client
ConfidoCreateClient(t, ok) ==
  /\ task[t].pc = "cf_client"
  /\ IF ok
       THEN /\ cfClients' = cfClients + 1
            /\ Goto(t, [Call(task[t], "createClient", TRUE) EXCEPT
                          !.cf.client = cfClients + 1], "cf_matter")
            /\ UNCHANGED invoices
       ELSE /\ ConfidoFailed(t, "createClient", GatewayError)
            /\ UNCHANGED cfClients
  /\ UNCHANGED <<payments, nextRowId, nextPayId, cfMatters, cfLinks, crmVars, delivered,
                 stageVars, poll>>

\* confidoService.createInvoice, step 2: the matter under that client
ConfidoCreateMatter(t, ok) ==
  /\ task[t].pc = "cf_matter"
  /\ IF ok
       THEN /\ cfMatters' = cfMatters + 1
            /\ Goto(t, [Call(task[t], "createMatter", TRUE) EXCEPT
                          !.cf.matter = cfMatters + 1], "cf_link")
            /\ UNCHANGED invoices
       ELSE /\ ConfidoFailed(t, "createMatter", GatewayError)
            /\ UNCHANGED cfMatters
  /\ UNCHANGED <<payments, nextRowId, nextPayId, cfClients, cfLinks, crmVars, delivered,
                 stageVars, poll>>

\* the billing system already holds a payment link for this CRM invoice
DuplicatePaymentLink(g) == \E l \in cfLinks : l.ghl = g

\* the payment URL of a payment link
PaymentUrl(link) == link

\* confidoService.createInvoice, step 3: the payment link under that matter;
\* the billing system signals DuplicatePaymentLink instead of a second link
ConfidoCreatePaymentLink(t, ok) ==
  /\ task[t].pc = "cf_link"
  /\ LET g == task[t].ev.ghl
         id == Cardinality(cfLinks) + 1
     IN IF ~ok
          THEN /\ ConfidoFailed(t, "createPaymentLink", GatewayError)
               /\ UNCHANGED cfLinks
          ELSE IF DuplicatePaymentLink(g)
            THEN /\ ConfidoFailed(t, "createPaymentLink", "DuplicatePaymentLink")
                 /\ UNCHANGED cfLinks
            ELSE /\ cfLinks' = cfLinks \cup {[id |-> id, ghl |-> g]}
                 /\ UNCHANGED invoices
                 /\ Goto(t, [Call(task[t], "createPaymentLink", TRUE) EXCEPT
                               !.cf.link = id, !.cf.status = "unpaid", !.cf.paid = 0],
                         IF task[t].kind = "customInvoice" THEN "co_update"
                                                           ELSE "inv_save2")
  /\ UNCHANGED <<payments, nextRowId, nextPayId, cfClients, cfMatters, crmVars, delivered,
                 stageVars, poll>>

\* second saveInvoiceToSupabase with the billing identifiers; its result is
\* not inspected, the handler answers 200 either way
SaveInvoiceSecond(t, ok) ==
  /\ task[t].pc = "inv_save2"
  /\ LET rec == InvoiceRecord(SecondSaveData(task[t].ev, task[t].cf))
         wrote == ok /\ ~InvoiceWriteConflict(invoices, rec)
     IN /\ IF wrote
             THEN /\ invoices' = UpsertInvoiceRow(invoices, rec, nextRowId)
                  /\ nextRowId' \in SerialAfter(invoices, rec, nextRowId)
             ELSE UNCHANGED <<invoices, nextRowId>>
        /\ Finish(t, Call(task[t], "saveInvoice", wrote),
                  Response(200, "Invoice created successfully in both systems",
                           PaymentUrl(task[t].cf.link), NULL))
  /\ UNCHANGED <<payments, nextPayId, billingVars, crmVars, delivered, stageVars, poll>>

\* --------------------------- POST /webhooks/confido/payment-received
\* signature check, extraction and validation, up to the first await
ReceivePayment(t, e) ==
  /\ Free(t)
  /\ delivered' = delivered + 1
  /\ IF e.sig = "invalid"
       THEN Reject(t, "payment", e, 401, "Invalid webhook signature")
       ELSE IF e.pid = NULL
         THEN Reject(t, "payment", e, 400, "Missing required field: payment ID")
         ELSE IF e.confInv = 0
           THEN Reject(t, "payment", e, 400, "Missing required field: invoice ID")
           ELSE IF e.amount <= 0
             THEN Reject(t, "payment", e, 400, "Missing or invalid payment amount")
             ELSE /\ task' = [task EXCEPT ![t] =
                       [Fresh("payment", e) EXCEPT !.pc = "pay_lookup"]]
                  /\ UNCHANGED last
  /\ UNCHANGED <<ledgerVars, billingVars, crmVars, stageVars, poll>>

\* a lookup that records the payment before it answers that no invoice matches
LookupAfterRecordingPayment(t, ok) ==
  /\ task[t].pc = "pay_lookup"
  /\ LET rows == RowsByConfido(task[t].ev.confInv)
         e == task[t].ev
         rec == [id |-> 0, pid |-> e.pid, confInv |-> e.confInv, ghl |-> NULL,
                 opp |-> NULL, amount |-> e.amount, method |-> e.method,
                 status |-> OrStr(e.status, "completed")]
     IN /\ payments' = UpsertPaymentRow(payments, rec, nextPayId)
        /\ nextPayId' \in PaySerialAfter(payments, rec, nextPayId)
        /\ IF ok /\ Cardinality(rows) = 1
             THEN Goto(t, [Call(task[t], "getInvoiceByconfidoId", TRUE) EXCEPT
                             !.inv = CHOOSE r \in rows : TRUE], "pay_update")
             ELSE Finish(t, Call(task[t], "getInvoiceByconfidoId", FALSE),
                         Response(404, "Invoice not found in database", 0, NULL))
  /\ UNCHANGED <<invoices, nextRowId, billingVars, crmVars, delivered, stageVars, poll>>

\* getInvoiceByconfidoId: .eq('confido_invoice_id', c).single(); no row, more
\* than one row or a failing call all end in the 404 answer
LookupInvoiceByConfidoId(t, ok) ==
  /\ task[t].pc = "pay_lookup"
  /\ LET rows == RowsByConfido(task[t].ev.confInv)
     IN IF ok /\ Cardinality(rows) = 1
          THEN Goto(t, [Call(task[t], "getInvoiceByconfidoId", TRUE) EXCEPT
                          !.inv = CHOOSE r \in rows : TRUE], "pay_update")
          ELSE Finish(t, Call(task[t], "getInvoiceByconfidoId", FALSE),
                      Response(404, "Invoice not found in database", 0, NULL))
  /\ UNCHANGED <<ledgerVars, billingVars, crmVars, delivered, stageVars, poll>>

\* updateInvoicePaymentStatus: the update matches by confido_invoice_id and
\* .single() fails unless exactly one row was updated
UpdateInvoicePaymentStatus(t, ok) ==
  /\ task[t].pc = "pay_update"
  /\ LET e == task[t].ev
     IN IF ok /\ Cardinality(RowsByConfido(e.confInv)) = 1
          THEN /\ invoices' = UpdatePaid(invoices, e.confInv, e.amount, "date")
               /\ Goto(t, Call(task[t], "updateInvoicePaymentStatus", TRUE), "pay_save")
          ELSE /\ Finish(t, Call(task[t], "updateInvoicePaymentStatus", FALSE),
                         Response(500, "Failed to update invoice status", 0, GatewayError))
               /\ UNCHANGED invoices
  /\ UNCHANGED <<payments, nextRowId, nextPayId, billingVars, crmVars, delivered, stageVars, poll>>

\* the paymentData the handler passes to savePaymentToSupabase
PaymentSaveData(e, inv) ==
  [confidoPaymentId |-> e.pid, confidoInvoiceId |-> e.confInv,
   ghlInvoiceId |-> inv.ghl, ghlOpportunityId |-> inv.opp,
   amount |-> e.amount, paymentMethod |-> e.method, status |-> e.status]

\* savePaymentToSupabase; its result is not inspected
SavePayment(t, ok) ==
  /\ task[t].pc = "pay_save"
  /\ LET rec == PaymentRecord(PaymentSaveData(task[t].ev, task[t].inv))
     IN IF ok
          THEN /\ payments' = UpsertPaymentRow(payments, rec, nextPayId)
               /\ nextPayId' \in PaySerialAfter(payments, rec, nextPayId)
          ELSE UNCHANGED <<payments, nextPayId>>
  /\ Goto(t, Call(task[t], "savePayment", ok), "pay_mirror")
  /\ UNCHANGED <<invoices, nextRowId, billingVars, crmVars, delivered, stageVars, poll>>

PaymentProcessed == Response(200, "Payment processed successfully", 0, NULL)

\* the mirror without its try/catch: its failure reaches the handler's catch
RecordInvoicePaymentUncaught(t, ok) ==
  /\ task[t].pc = "pay_mirror"
  /\ crmPayments' = IF ok THEN crmPayments + 1 ELSE crmPayments
  /\ IF ~ok
       THEN Finish(t, Call(task[t], "recordInvoicePayment", FALSE),
                   Response(500, "Error processing payment webhook", 0, GatewayError))
       ELSE IF task[t].inv.opp # NULL
         THEN Goto(t, Call(task[t], "recordInvoicePayment", ok), "pay_task")
         ELSE Finish(t, Call(task[t], "recordInvoicePayment", ok), PaymentProcessed)
  /\ UNCHANGED <<ledgerVars, billingVars, crmTasks, crmObjects, delivered, stageVars, poll>>

\* ghlService.recordInvoicePayment inside try/catch; without an opportunity
\* on the invoice row the handler answers right after it
RecordInvoicePayment(t, ok) ==
  /\ task[t].pc = "pay_mirror"
  /\ crmPayments' = IF ok THEN crmPayments + 1 ELSE crmPayments
  /\ IF task[t].inv.opp # NULL
       THEN Goto(t, Call(task[t], "recordInvoicePayment", ok), "pay_task")
       ELSE Finish(t, Call(task[t], "recordInvoicePayment", ok), PaymentProcessed)
  /\ UNCHANGED <<ledgerVars, billingVars, crmTasks, crmObjects, delivered, stageVars, poll>>

\* ghlService.createTask inside try/catch, then the 200 answer
CreateNotificationTask(t, ok) ==
  /\ task[t].pc = "pay_task"
  /\ crmTasks' = IF ok THEN crmTasks + 1 ELSE crmTasks
  /\ Finish(t, Call(task[t], "createTask", ok), PaymentProcessed)
  /\ UNCHANGED <<ledgerVars, billingVars, crmPayments, crmObjects, delivered, stageVars, poll>>

\* ------------------------------------- POST /webhooks/ghl/task-completed
\* the sentinel title of processTaskCompletion (its dash is an em dash)
FinalTaskTitle ==
  "Final follow-up call--if no answer, send final text and close the matter."

\* task-completed payloads after extraction into taskData
TaskPayloads ==
  [contactId : {"C1"}, title : {FinalTaskTitle, "Other task"},
   opportunityId : OppIds \cup {NULL}]
  \cup
  {[contactId |-> "C2", title |-> FinalTaskTitle, opportunityId |-> NULL],
   [contactId |-> NULL, title |-> FinalTaskTitle, opportunityId |-> "O1"],
   [contactId |-> "C1", title |-> NULL, opportunityId |-> "O1"]}

\* the CRM after start-up: both opportunities belong to contact C1, the table
\* holds any of the rules; the ledger and the billing system are empty
InitStage ==
  /\ invoices = {}
  /\ payments = {}
  /\ nextRowId = 1
  /\ nextPayId = 1
  /\ cfClients = 0
  /\ cfMatters = 0
  /\ cfLinks = {}
  /\ crmPayments = 0
  /\ crmTasks = 0
  /\ crmObjects = {}
  /\ task = [t \in Tasks |-> IdleTask]
  /\ opps \in [OppIds -> [contact : {"C1"}, status : {"open", "won"},
                          pipeline : {"PL1"}, stage : Stages]]
  /\ mappings \in SUBSET MappingRules
  /\ delivered = 0
  /\ last = [kind |-> NULL, ev |-> NULL, resp |-> NoResp]
  /\ poll = IdlePoll

\* extraction and validation, up to the first await of processTaskCompletion
ReceiveTaskCompleted(t, e) ==
  /\ Free(t)
  /\ delivered' = delivered + 1
  /\ IF e.contactId = NULL
       THEN Reject(t, "taskCompleted", e, 400, "Missing required field: contactId")
       ELSE IF e.title = NULL
         THEN Reject(t, "taskCompleted", e, 400, "Missing required field: task title")
         ELSE /\ task' = [task EXCEPT ![t] =
                   [Fresh("taskCompleted", e) EXCEPT
                      !.pc = IF e.opportunityId = NULL THEN "tc_search" ELSE "tc_get",
                      !.opp = e.opportunityId]]
              /\ UNCHANGED last
  /\ UNCHANGED <<ledgerVars, billingVars, crmVars, stageVars, poll>>

\* the ids the CRM gives to the opportunities it stores, in order of creation
OppOrder == <<"O1", "O2", "O3", "O4", "O5", "O6", "O7">>

\* the opportunities the CRM holds for a contact
OpportunitiesOf(c) == {o \in DOMAIN opps : opps[o].contact = c}

\* what GET /opportunities/search may return for a contact: the contact's
\* opportunities, each once, in the order the CRM chooses
SearchResult(c) ==
  {found \in [1..Cardinality(OpportunitiesOf(c)) -> OpportunitiesOf(c)] :
     \A o \in OpportunitiesOf(c) : \E i \in DOMAIN found : found[i] = o}

\* a resolution that takes the first opportunity returned, open or not
PickFirstReturned(found) == found[1]

\* opportunities.find(opp => opp.status === 'open')?.id || opportunities[0].id
PickOpportunity(found) ==
  LET open == SelectSeq(found, LAMBDA o : opps[o].status = "open")
  IN IF Len(open) > 0 THEN open[1] ELSE found[1]

\* the answer of the handler's catch block
WebhookError == Response(500, "Error processing webhook", 0, GatewayError)

\* searchOpportunitiesByContact when the webhook carries no opportunity id
SearchOpportunitiesByContact(t, ok) ==
  /\ task[t].pc = "tc_search"
  /\ IF ~ok
       THEN Finish(t, Call(task[t], "searchOpportunities", FALSE), WebhookError)
       ELSE \E found \in SearchResult(task[t].ev.contactId) :
              LET r == [Call(task[t], "searchOpportunities", TRUE) EXCEPT !.found = found]
              IN IF Len(found) = 0
                   THEN Finish(t, r, Response(200, "No opportunity found for contact", 0, NULL))
                   ELSE Goto(t, [r EXCEPT !.opp = PickOpportunity(found)], "tc_get")
  /\ UNCHANGED <<ledgerVars, billingVars, crmVars, delivered, stageVars, poll>>

\* GET /opportunities/{id}, then the comparison of the title with the sentinel
GetOpportunityStage(t, ok) ==
  /\ task[t].pc = "tc_get"
  /\ LET cur == [pipeline |-> opps[task[t].opp].pipeline, stage |-> opps[task[t].opp].stage]
         r == [Call(task[t], "getOpportunity", ok) EXCEPT !.cur = IF ok THEN cur ELSE NoStage]
     IN IF ~ok
          THEN Finish(t, r, WebhookError)
          ELSE IF task[t].ev.title # FinalTaskTitle
            THEN Finish(t, r, Response(200, "Not the final task", 0, NULL))
            ELSE Goto(t, r, "tc_mapping")
  /\ UNCHANGED <<ledgerVars, billingVars, crmVars, delivered, stageVars, poll>>

\* every row of a source stage, active or not
AnyMappings(stage) == {m \in mappings : m.source = stage}

\* .from('stage_completion_mappings').eq('source_stage_id', stage)
\*   .eq('active', true)
ActiveMappings(stage) == {m \in mappings : m.source = stage /\ m.active}

\* the mapping query with .limit(1), then the checks on its result
FetchStageMapping(t, ok) ==
  /\ task[t].pc = "tc_mapping"
  /\ LET rows == ActiveMappings(task[t].cur.stage)
         r == Call(task[t], "getStageMapping", ok)
     IN IF ~ok
          THEN Finish(t, r, WebhookError)
          ELSE IF rows = {}
            THEN Finish(t, r, Response(200, "No stage mapping configured", 0, NULL))
            ELSE \E m \in rows :
                   IF m.targetStage = NULL
                     THEN Finish(t, r, Response(200, "Target stage ID not configured yet", 0, NULL))
                     ELSE Goto(t, [r EXCEPT !.mapping = m], "tc_update")
  /\ UNCHANGED <<ledgerVars, billingVars, crmVars, delivered, stageVars, poll>>

\* an update that sends the target stage but leaves the pipeline
UpdateStageKeepPipeline(t, ok) ==
  /\ task[t].pc = "tc_update"
  /\ LET m == task[t].mapping
         r == Call(task[t], "updateOpportunityStage", ok)
     IN IF ok
          THEN /\ opps' = [opps EXCEPT ![task[t].opp].stage = m.targetStage]
               /\ Finish(t, r, Response(200, "Opportunity moved", 0, NULL))
          ELSE /\ Finish(t, r, WebhookError)
               /\ UNCHANGED opps
  /\ UNCHANGED <<ledgerVars, billingVars, crmVars, delivered, mappings, poll>>

\* updateOpportunityStage: PUT /opportunities/{id} {pipelineId, pipelineStageId}
UpdateOpportunityStage(t, ok) ==
  /\ task[t].pc = "tc_update"
  /\ LET m == task[t].mapping
         r == Call(task[t], "updateOpportunityStage", ok)
     IN IF ok
          THEN /\ opps' = [opps EXCEPT ![task[t].opp].pipeline = m.targetPipeline,
                                       ![task[t].opp].stage = m.targetStage]
               /\ Finish(t, r, Response(200, "Opportunity moved", 0, NULL))
          ELSE /\ Finish(t, r, WebhookError)
               /\ UNCHANGED opps
  /\ UNCHANGED <<ledgerVars, billingVars, crmVars, delivered, mappings, poll>>

\* ------------------------------ POST /webhooks/ghl/opportunity-stage-changed
StageChangePayloads ==
  [opportunityId : {"O1", NULL}, stageName : {"Intake", NULL}, contactId : {"C1"}]

\* the handler without its first validation: only stageName is required
ReceiveStageChangedUnchecked(t, e) ==
  /\ Free(t)
  /\ delivered' = delivered + 1
  /\ IF e.stageName = NULL
       THEN Reject(t, "stageChanged", e, 400, "Missing required field: stageName")
       ELSE /\ task' = [task EXCEPT ![t] =
                 [Fresh("stageChanged", e) EXCEPT !.pc = "sc_tasks",
                                                 !.opp = e.opportunityId]]
            /\ UNCHANGED last
  /\ UNCHANGED <<ledgerVars, billingVars, crmVars, stageVars, poll>>

\* extraction and the two validations, up to processOpportunityStageChange
ReceiveStageChanged(t, e) ==
  /\ Free(t)
  /\ delivered' = delivered + 1
  /\ IF e.opportunityId = NULL
       THEN Reject(t, "stageChanged", e, 400, "Missing required field: opportunityId")
       ELSE IF e.stageName = NULL
         THEN Reject(t, "stageChanged", e, 400, "Missing required field: stageName")
         ELSE /\ task' = [task EXCEPT ![t] =
                   [Fresh("stageChanged", e) EXCEPT !.pc = "sc_tasks",
                                                   !.opp = e.opportunityId]]
              /\ UNCHANGED last
  /\ UNCHANGED <<ledgerVars, billingVars, crmVars, stageVars, poll>>

\* the task numbers of the n rows ghl_task_list holds for a stage name
TaskNumbers(n) == 1..n

\* .order('task_number', { ascending: true })
RECURSIVE OrderByTaskNumber(_)
OrderByTaskNumber(numbers) ==
  IF numbers = {}
    THEN <<>>
    ELSE LET first == CHOOSE x \in numbers : \A y \in numbers : x <= y
         IN <<first>> \o OrderByTaskNumber(numbers \ {first})

\* getTasksForStage: the rows of ghl_task_list for the stage name, n of them
GetTasksForStage(t, ok, n) ==
  /\ task[t].pc = "sc_tasks"
  /\ LET r == Call(task[t], "getTasksForStage", ok)
     IN IF ~ok
          THEN Finish(t, r, WebhookError)
          ELSE IF n = 0
            THEN Finish(t, r, Response(200, "No tasks to create for this stage", 0, NULL))
            ELSE Goto(t, [r EXCEPT !.todo = n,
                                   !.queue = OrderByTaskNumber(TaskNumbers(n))],
                      "sc_create")
  /\ UNCHANGED <<ledgerVars, billingVars, crmVars, delivered, stageVars, poll>>

\* a loop that gives up at the first task it cannot create
CreateGHLTaskStopsOnFailure(t, ok) ==
  /\ task[t].pc = "sc_create"
  /\ crmTasks' = IF ok THEN crmTasks + 1 ELSE crmTasks
  /\ LET r == [Call(task[t], "createGHLTask", ok) EXCEPT
                 !.todo = @ - 1, !.queue = Tail(@),
                 !.tried = Append(@, Head(task[t].queue)),
                 !.created = IF ok THEN @ + 1 ELSE @]
     IN IF ~ok
          THEN Finish(t, r, WebhookError)
          ELSE IF r.todo = 0
            THEN Finish(t, r, Response(200, "Created tasks for stage", 0, NULL))
            ELSE Goto(t, r, "sc_create")
  /\ UNCHANGED <<ledgerVars, billingVars, crmPayments, crmObjects, delivered, stageVars, poll>>

\* one turn of the loop over the rows: createGHLTask, a failure is skipped
CreateGHLTask(t, ok) ==
  /\ task[t].pc = "sc_create"
  /\ crmTasks' = IF ok THEN crmTasks + 1 ELSE crmTasks
  /\ LET r == [Call(task[t], "createGHLTask", ok) EXCEPT
                 !.todo = @ - 1, !.queue = Tail(@),
                 !.tried = Append(@, Head(task[t].queue)),
                 !.created = IF ok THEN @ + 1 ELSE @]
     IN IF r.todo = 0
          THEN Finish(t, r, Response(200, "Created tasks for stage", 0, NULL))
          ELSE Goto(t, r, "sc_create")
  /\ UNCHANGED <<ledgerVars, billingVars, crmPayments, crmObjects, delivered, stageVars, poll>>

\* --------------------------------------------- POST /webhooks/intakeSurvey
SurveyPayloads == [contactId : {"C1", "C2", NULL}]

\* EXPECTED_PIPELINE_ID and EXPECTED_STAGE_ID of the handler
ExpectedPipeline == "PL1"
ExpectedStage == "S1"
\* GHL_PIPELINE_ID (or its default) and the stage id of "Pending I/V"
PendingPipeline == "PL2"
PendingStage == "S2"

\* the stage checks of checkOpportunityStageWithRetry (after 30s, after 60s)
SurveyChecks == 2

\* extraction of contactId and its validation
ReceiveSurvey(t, e) ==
  /\ Free(t)
  /\ delivered' = delivered + 1
  /\ IF e.contactId = NULL
       THEN Reject(t, "survey", e, 400, "Missing required field: contactId")
       ELSE /\ task' = [task EXCEPT ![t] = [Fresh("survey", e) EXCEPT !.pc = "sv_search"]]
            /\ UNCHANGED last
  /\ UNCHANGED <<ledgerVars, billingVars, crmVars, stageVars, poll>>

\* searchOpportunitiesByContact, 404 when the contact has no opportunity
SurveySearch(t, ok) ==
  /\ task[t].pc = "sv_search"
  /\ IF ~ok
       THEN Finish(t, Call(task[t], "searchOpportunities", FALSE), WebhookError)
       ELSE \E found \in SearchResult(task[t].ev.contactId) :
              LET r == [Call(task[t], "searchOpportunities", TRUE) EXCEPT !.found = found]
              IN IF Len(found) = 0
                   THEN Finish(t, r, Response(404, "No opportunity found for contact", 0, NULL))
                   ELSE Goto(t, [r EXCEPT !.opp = PickOpportunity(found),
                                          !.todo = SurveyChecks], "sv_check")
  /\ UNCHANGED <<ledgerVars, billingVars, crmVars, delivered, stageVars, poll>>

\* one stage check of checkOpportunityStageWithRetry: hasMoved as soon as the
\* opportunity is seen outside the expected pipeline and stage, not moved
\* when it is still there at the last check
CheckOpportunityStage(t, ok) ==
  /\ task[t].pc = "sv_check"
  /\ LET o == opps[task[t].opp]
         r == [Call(task[t], "getOpportunity", ok) EXCEPT !.todo = @ - 1]
     IN IF ~ok
          THEN Finish(t, r, WebhookError)
          ELSE IF o.pipeline # ExpectedPipeline \/ o.stage # ExpectedStage
            THEN Finish(t, r, Response(200, "Opportunity already moved to a different stage",
                                       0, NULL))
            ELSE IF r.todo = 0 THEN Goto(t, r, "sv_update") ELSE Goto(t, r, "sv_check")
  /\ UNCHANGED <<ledgerVars, billingVars, crmVars, delivered, stageVars, poll>>

\* an update that sends the opportunity back to the expected stage
SurveyUpdateToExpected(t, ok) ==
  /\ task[t].pc = "sv_update"
  /\ LET r == Call(task[t], "updateOpportunityStage", ok)
     IN IF ok
          THEN /\ opps' = [opps EXCEPT ![task[t].opp].pipeline = ExpectedPipeline,
                                       ![task[t].opp].stage = ExpectedStage]
               /\ Finish(t, r, Response(200, "Opportunity moved to Pending I/V", 0, NULL))
          ELSE /\ Finish(t, r, WebhookError)
               /\ UNCHANGED opps
  /\ UNCHANGED <<ledgerVars, billingVars, crmVars, delivered, mappings, poll>>

\* updateOpportunityStage(opportunityId, pipelineId, targetStageId)
SurveyUpdateStage(t, ok) ==
  /\ task[t].pc = "sv_update"
  /\ LET r == Call(task[t], "updateOpportunityStage", ok)
     IN IF ok
          THEN /\ opps' = [opps EXCEPT ![task[t].opp].pipeline = PendingPipeline,
                                       ![task[t].opp].stage = PendingStage]
               /\ Finish(t, r, Response(200, "Opportunity moved to Pending I/V", 0, NULL))
          ELSE /\ Finish(t, r, WebhookError)
               /\ UNCHANGED opps
  /\ UNCHANGED <<ledgerVars, billingVars, crmVars, delivered, mappings, poll>>

\* ------ POST /webhooks/intakeForm, /webhook/jotform-intake, /webhook/jotform
\* form submissions after parsing: the endpoint, whether the body carries
\* rawRequest and submissionID, whether the parsed data hold a phone number,
\* whether the four required contact fields (first name, last name, email,
\* phone number) are all there, the CRM contact the submission belongs to,
\* whether the CRM already holds that contact, and whether a PDF is asked
\* for; a submission to /webhook/jotform always carries rawRequest
FormPayloads ==
  {e \in [endpoint : {"intakeForm", "jotform-intake", "jotform"}, rawRequest : BOOLEAN,
          submissionID : BOOLEAN, phone : BOOLEAN, complete : BOOLEAN,
          contact : ContactIds, known : BOOLEAN, pdf : BOOLEAN] :
     /\ e.endpoint = "jotform" => e.rawRequest
     /\ e.complete => e.phone}

\* the answer of the catch block when the parser threw
ParserError == Response(500, "Error processing webhook", 0, "rawRequest is required")

\* the checks of /webhooks/intakeForm before its first await; the two
\* jotform handlers only parse, and the parser throws without rawRequest
ReceiveForm(t, e) ==
  /\ Free(t)
  /\ delivered' = delivered + 1
  /\ IF e.endpoint = "intakeForm" /\ ~e.rawRequest
       THEN Reject(t, "form", e, 400, "Missing rawRequest field in webhook payload")
       ELSE IF e.endpoint = "intakeForm" /\ ~e.submissionID
         THEN Reject(t, "form", e, 400, "Missing submissionID field in webhook payload")
         ELSE IF ~e.rawRequest
           THEN /\ task' = [task EXCEPT ![t] =
                     [Fresh("form", e) EXCEPT !.pc = "done", !.resp = ParserError]]
                /\ last' = [kind |-> "form", ev |-> e, resp |-> ParserError]
           ELSE IF e.endpoint = "intakeForm" /\ ~e.complete
             THEN Reject(t, "form", e, 400, "Missing required contact fields")
             ELSE /\ task' = [task EXCEPT ![t] =
                       [Fresh("form", e) EXCEPT !.pc = "if_contact"]]
                  /\ UNCHANGED last
  /\ UNCHANGED <<ledgerVars, billingVars, crmVars, stageVars, poll>>

\* the error of createGHLContact when the duplicate is not found
DuplicateNotFound == "Duplicate contact error but could not find existing contact"

\* createGHLContact, POST /contacts/: a contact the CRM already holds is
\* refused as duplicated and looked up, any other failure is thrown
CreateGHLContact(t, ok) ==
  /\ task[t].pc = "if_contact"
  /\ IF task[t].ev.known
       THEN IF ok
              THEN IF task[t].ev.phone
                     THEN Goto(t, Call(task[t], "createContact", FALSE), "if_find")
                     ELSE Finish(t, Call(task[t], "createContact", FALSE),
                                 Response(500, "Error processing webhook", 0,
                                          DuplicateNotFound))
              ELSE Finish(t, Call(task[t], "createContact", FALSE), WebhookError)
       ELSE IF ok
              THEN Goto(t, Call(task[t], "createContact", TRUE), "if_opp")
              ELSE Finish(t, Call(task[t], "createContact", FALSE), WebhookError)
  /\ UNCHANGED <<ledgerVars, billingVars, crmVars, delivered, stageVars, poll>>

\* findExistingContact for a phone number, GET /contacts/: a failed search
\* returns null like an empty one, and createGHLContact throws
FindExistingContact(t, ok) ==
  /\ task[t].pc = "if_find"
  /\ LET r == Call(task[t], "findExistingContact", ok)
     IN IF ok
          THEN Goto(t, r, "if_updatec")
          ELSE Finish(t, r, Response(500, "Error processing webhook", 0, DuplicateNotFound))
  /\ UNCHANGED <<ledgerVars, billingVars, crmVars, delivered, stageVars, poll>>

\* updateGHLContact, PUT /contacts/{id}: isDuplicate is true from here on
UpdateGHLContact(t, ok) ==
  /\ task[t].pc = "if_updatec"
  /\ LET r == Call(task[t], "updateContact", ok)
     IN IF ok THEN Goto(t, r, "if_opp") ELSE Finish(t, r, WebhookError)
  /\ UNCHANGED <<ledgerVars, billingVars, crmVars, delivered, stageVars, poll>>

\* the id the CRM gives to the next opportunity it creates
NewOpportunityId == OppOrder[Cardinality(DOMAIN opps) + 1]

\* the opportunity POST /opportunities/ stores for a contact
NewOpportunity(c) ==
  [contact |-> c, status |-> "open", pipeline |-> IntakePipeline,
   stage |-> PendingContactStage]

\* the message of the success response, by endpoint and isDuplicate
FormAnswer(endpoint, isDuplicate) ==
  IF endpoint = "intakeForm"
    THEN IF isDuplicate THEN "Contact updated and opportunity created"
                        ELSE "Contact and opportunity created successfully"
    ELSE IF isDuplicate THEN "Contact updated successfully"
                        ELSE "Contact created successfully"

\* the success response of the three handlers
FormProcessed(r) ==
  Response(200, FormAnswer(r.ev.endpoint, r.ev.known), 0, NULL)

\* opportunityResult?.id: the id when the CRM's answer carries it at its
\* top level, undefined when the answer nests it or the call failed
OpportunityResultId(ok, idAtTop) == IF ok /\ idAtTop THEN NewOpportunityId ELSE NULL

\* createGHLOpportunity in its own try/catch: the CRM stores one more open
\* opportunity of the contact; a failure is kept in opportunityResult and
\* the handler goes on
CreateGHLOpportunity(t, ok, idAtTop) ==
  /\ task[t].pc = "if_opp"
  /\ LET r == [Call(task[t], "createOpportunity", ok) EXCEPT
                 !.opp = OpportunityResultId(ok, idAtTop)]
     IN /\ opps' = IF ok
                     THEN [o \in DOMAIN opps \cup {NewOpportunityId} |->
                             IF o = NewOpportunityId
                               THEN NewOpportunity(task[t].ev.contact)
                               ELSE opps[o]]
                     ELSE opps
        /\ IF task[t].ev.pdf THEN Goto(t, r, "if_pdf")
                             ELSE Finish(t, r, FormProcessed(r))
  /\ UNCHANGED <<ledgerVars, billingVars, crmVars, delivered, mappings, poll>>

\* handlePdfUpload, first await: hasExistingPdf reads the contact and
\* answers false when the read fails
HasExistingPdf(t, ok) ==
  /\ task[t].pc = "if_pdf"
  /\ Goto(t, Call(task[t], "getContactDetails", ok), "if_pdf_download")
  /\ UNCHANGED <<ledgerVars, billingVars, crmVars, delivered, stageVars, poll>>

\* second await: downloadPdfFromJotForm; its error is caught by the handler,
\* which goes on to the success response
DownloadPdfFromJotForm(t, ok) ==
  /\ task[t].pc = "if_pdf_download"
  /\ LET r == Call(task[t], "downloadPdf", ok)
     IN IF ok THEN Goto(t, r, "if_pdf_upload") ELSE Finish(t, r, FormProcessed(r))
  /\ UNCHANGED <<ledgerVars, billingVars, crmVars, delivered, stageVars, poll>>

\* third await: uploadPdfToGHL, then the success response whatever happened
UploadPdfToGHL(t, ok) ==
  /\ task[t].pc = "if_pdf_upload"
  /\ LET r == Call(task[t], "uploadPdf", ok)
     IN Finish(t, r, FormProcessed(r))
  /\ UNCHANGED <<ledgerVars, billingVars, crmVars, delivered, stageVars, poll>>

\* --------------------------------------------- Consistency Poller (4.4)
\* pollUntil(check, maxAttempts, delay) is called
PollStart(n) ==
  /\ poll.pc = "idle"
  /\ poll' = [IdlePoll EXCEPT !.pc = "check", !.maxAttempts = n]
  /\ UNCHANGED <<ledgerVars, billingVars, crmVars, task, delivered, last, stageVars>>

\* a check that is satisfied by either of the two sub-conditions
CompleteWhenEitherPresent(c) == c.items \/ c.relation

\* complete requires service items and opportunity relation together
Complete(c) == c.items /\ c.relation

\* the sub-conditions a check found false
Missing(c) ==
  (IF c.items THEN {} ELSE {"serviceItems"})
    \cup (IF c.relation THEN {} ELSE {"opportunityRelation"})

\* one check more than the cap allows
BeyondLastAttempt(attempt, maxAttempts) == attempt > maxAttempts

\* the hard cap on attempts
LastAttempt(attempt, maxAttempts) == attempt >= maxAttempts

\* one invocation of check(): done when complete, exhausted at the cap,
\* otherwise on to the delay
PollCheck(items, relation) ==
  /\ poll.pc = "check"
  /\ LET c == [items |-> items, relation |-> relation]
         p == [poll EXCEPT !.checks = Append(@, c)]
     IN poll' = IF Complete(c)
                  THEN [p EXCEPT !.pc = "returned", !.result = "Complete"]
                  ELSE IF LastAttempt(Len(p.checks), p.maxAttempts)
                    THEN [p EXCEPT !.pc = "returned", !.result = "Exhausted",
                                   !.missing = Missing(c)]
                    ELSE [p EXCEPT !.pc = "wait"]
  /\ UNCHANGED <<ledgerVars, billingVars, crmVars, task, delivered, last, stageVars>>

\* the fixed delay between two attempts has passed
PollWait ==
  /\ poll.pc = "wait"
  /\ poll' = [poll EXCEPT !.pc = "check", !.waits = @ + 1]
  /\ UNCHANGED <<ledgerVars, billingVars, crmVars, task, delivered, last, stageVars>>

\* the caller has taken the result
PollReturn ==
  /\ poll.pc = "returned"
  /\ poll' = IdlePoll
  /\ UNCHANGED <<ledgerVars, billingVars, crmVars, task, delivered, last, stageVars>>

\* ------------------- invoice creation from a CRM custom object (4.3, 4.4)
\* custom-object invoice events after extraction: the record id is the CRM
\* invoice id
CustomInvoicePayloads ==
  {[ghl |-> "INV1", amountDue |-> 2, status |-> NULL, opp |-> "O1"],
   [ghl |-> "INV2", amountDue |-> 1, status |-> NULL, opp |-> NULL],
   [ghl |-> NULL, amountDue |-> 2, status |-> NULL, opp |-> "O1"]}

\* the cap on attempts the invoice path hands to pollUntil (observed: 6)
InvoicePollAttempts == 6

ReceiveCustomInvoice(t, e) ==
  /\ Free(t)
  /\ delivered' = delivered + 1
  /\ IF e.ghl = NULL
       THEN Reject(t, "customInvoice", e, 400, "Missing required field: invoice ID")
       ELSE /\ task' = [task EXCEPT ![t] =
                 [Fresh("customInvoice", e) EXCEPT !.pc = "co_save"]]
            /\ UNCHANGED last
  /\ UNCHANGED <<ledgerVars, billingVars, crmVars, stageVars, poll>>

\* step 1: upsert the Persisted row; step 2 begins: pollUntil is called
CustomSaveInvoice(t, ok) ==
  /\ task[t].pc = "co_save"
  /\ poll.pc = "idle"
  /\ LET rec == InvoiceRecord(FirstSaveData(task[t].ev))
         rows == UpsertInvoiceRow(invoices, rec, nextRowId)
     IN IF ok
          THEN /\ invoices' = rows
               /\ nextRowId' \in SerialAfter(invoices, rec, nextRowId)
               /\ poll' = [IdlePoll EXCEPT !.pc = "check",
                                           !.maxAttempts = InvoicePollAttempts]
               /\ Goto(t, [Call(task[t], "saveInvoice", TRUE) EXCEPT
                             !.rowId = (CHOOSE r \in rows : r.ghl = rec.ghl).id],
                       "co_poll")
          ELSE /\ Finish(t, Call(task[t], "saveInvoice", FALSE),
                         Response(500, "Failed to save invoice to database", 0,
                                  GatewayError))
               /\ UNCHANGED <<invoices, nextRowId, poll>>
  /\ UNCHANGED <<payments, nextPayId, billingVars, crmVars, delivered, stageVars>>

\* a caller that goes on to the billing system whatever pollUntil returned
CustomProceedAlways(t) ==
  /\ task[t].pc = "co_poll"
  /\ poll.pc = "returned"
  /\ poll' = IdlePoll
  /\ Goto(t, [task[t] EXCEPT !.missing = poll.missing], "cf_client")
  /\ UNCHANGED <<ledgerVars, billingVars, crmVars, delivered, stageVars>>

\* pollUntil has returned: Exhausted ends the request with the structured
\* incomplete result naming what stayed missing, the data lets it go on
CustomAfterPoll(t) ==
  /\ task[t].pc = "co_poll"
  /\ poll.pc = "returned"
  /\ poll' = IdlePoll
  /\ IF poll.result = "Exhausted"
       THEN Finish(t, [task[t] EXCEPT !.missing = poll.missing],
                   Response(200, "Invoice data incomplete", 0, "IncompleteData"))
       ELSE Goto(t, task[t], "cf_client")
  /\ UNCHANGED <<ledgerVars, billingVars, crmVars, delivered, stageVars>>

\* updateInvoiceInSupabase: .update(updates).eq('ghl_invoice_id', g).single()
UpdateInvoiceRow(rows, g, cf) ==
  {IF r.ghl = g
     THEN [r EXCEPT !.confInv = cf.link, !.confClient = cf.client,
                    !.confMatter = cf.matter, !.paymentUrl = PaymentUrl(cf.link),
                    !.status = "unpaid"]
     ELSE r : r \in rows}

\* step 4: the row becomes BillingLinked; a failing write fails the request
CustomUpdateInvoice(t, ok) ==
  /\ task[t].pc = "co_update"
  /\ LET g == task[t].ev.ghl
         wrote == ok /\ RowsByGhl(g) # {}
         r == Call(task[t], "updateInvoice", wrote)
     IN IF wrote
          THEN /\ invoices' = UpdateInvoiceRow(invoices, g, task[t].cf)
               /\ Goto(t, r, "co_mirror")
          ELSE /\ Finish(t, r, Response(500, "Failed to update invoice", 0, GatewayError))
               /\ UNCHANGED invoices
  /\ UNCHANGED <<payments, nextRowId, nextPayId, billingVars, crmVars, delivered,
                 stageVars, poll>>

\* a handler for which a failed mirror is fatal: it takes the billing
\* identifiers out of the row again and answers with an error
CustomMirrorFatal(t, ok) ==
  /\ task[t].pc = "co_mirror"
  /\ IF ok
       THEN /\ crmObjects' = crmObjects \cup {[ghl |-> task[t].ev.ghl,
                                               url |-> PaymentUrl(task[t].cf.link)]}
            /\ Finish(t, Call(task[t], "updateCustomObject", TRUE),
                      Response(200, "Invoice created successfully in both systems",
                               PaymentUrl(task[t].cf.link), NULL))
            /\ UNCHANGED invoices
       ELSE /\ invoices' = UpdateInvoiceRow(invoices, task[t].ev.ghl, NoCf)
            /\ Finish(t, Call(task[t], "updateCustomObject", FALSE), WebhookError)
            /\ UNCHANGED crmObjects
  /\ UNCHANGED <<payments, nextRowId, nextPayId, billingVars, crmPayments, crmTasks,
                 delivered, stageVars, poll>>

\* step 4, best effort: updateCustomObject mirrors the payment URL
CustomMirror(t, ok) ==
  /\ task[t].pc = "co_mirror"
  /\ crmObjects' = IF ok
                     THEN crmObjects \cup {[ghl |-> task[t].ev.ghl,
                                            url |-> PaymentUrl(task[t].cf.link)]}
                     ELSE crmObjects
  /\ Finish(t, Call(task[t], "updateCustomObject", ok),
            Response(200, "Invoice created successfully in both systems",
                     PaymentUrl(task[t].cf.link), IF ok THEN NULL ELSE "MirrorFailed"))
  /\ UNCHANGED <<ledgerVars, billingVars, crmPayments, crmTasks, delivered, stageVars, poll>>

\* ----------------------------------------- CRM invoice deletion event
InvoiceDeletedPayloads == [ghl : GhlIds \cup {NULL}]

ReceiveInvoiceDeleted(t, e) ==
  /\ Free(t)
  /\ delivered' = delivered + 1
  /\ IF e.ghl = NULL
       THEN Reject(t, "invoiceDeleted", e, 400, "Missing required field: invoice ID")
       ELSE /\ task' = [task EXCEPT ![t] =
                 [Fresh("invoiceDeleted", e) EXCEPT !.pc = "del_update"]]
            /\ UNCHANGED last
  /\ UNCHANGED <<ledgerVars, billingVars, crmVars, stageVars, poll>>

\* updateInvoiceInSupabase(g, {status: 'cancelled'})
CancelInvoiceRow(rows, g) ==
  {IF r.ghl = g THEN [r EXCEPT !.status = "cancelled"] ELSE r : r \in rows}

\* the row is marked cancelled; .single() fails when no row matches
CancelInvoice(t, ok) ==
  /\ task[t].pc = "del_update"
  /\ LET g == task[t].ev.ghl
         wrote == ok /\ RowsByGhl(g) # {}
         r == Call(task[t], "updateInvoice", wrote)
     IN IF wrote
          THEN /\ invoices' = CancelInvoiceRow(invoices, g)
               /\ Finish(t, r, Response(200, "Invoice cancelled", 0, NULL))
          ELSE /\ Finish(t, r, Response(500, "Failed to update invoice", 0, GatewayError))
               /\ UNCHANGED invoices
  /\ UNCHANGED <<payments, nextRowId, nextPayId, billingVars, crmVars, delivered,
                 stageVars, poll>>

\* the response has been sent: the invocation is over
Return(t) ==
  /\ task[t].pc = "done"
  /\ task' = [task EXCEPT ![t] = IdleTask]
  /\ UNCHANGED <<ledgerVars, billingVars, crmVars, delivered, last, stageVars, poll>>

\* ------------------------------------------------------------ behaviours
AllFree == \A u \in Tasks : Free(u)

Step(t) ==
  \/ \E ok \in BOOLEAN : GetContact(t, ok)
  \/ \E ok \in BOOLEAN : SaveInvoiceFirst(t, ok)
  \/ \E ok \in BOOLEAN : ConfidoCreateClient(t, ok)
  \/ \E ok \in BOOLEAN : ConfidoCreateMatter(t, ok)
  \/ \E ok \in BOOLEAN : ConfidoCreatePaymentLink(t, ok)
  \/ \E ok \in BOOLEAN : SaveInvoiceSecond(t, ok)
  \/ \E ok \in BOOLEAN : LookupInvoiceByConfidoId(t, ok)
  \/ \E ok \in BOOLEAN : UpdateInvoicePaymentStatus(t, ok)
  \/ \E ok \in BOOLEAN : SavePayment(t, ok)
  \/ \E ok \in BOOLEAN : RecordInvoicePayment(t, ok)
  \/ \E ok \in BOOLEAN : CreateNotificationTask(t, ok)

\* duplicate deliveries about one CRM invoice and one billing payment
OverlapInvoicePayloads == {e \in InvoicePayloads : e.ghl = "INV1" /\ e.amountDue > 0}

OverlapPaymentPayloads ==
  {e \in PaymentPayloads : e.pid = "P1" /\ e.confInv = 1 /\ e.amount > 0 /\ e.sig = "valid"}

\* a delivery to POST /webhooks/ghl/invoice-created
DeliverInvoice(t) ==
  /\ AllFree
  /\ delivered < MaxDeliveries
  /\ \E e \in InvoicePayloads : ReceiveInvoice(t, e)

\* a delivery to POST /webhooks/confido/payment-received
DeliverPayment(t) ==
  /\ AllFree
  /\ delivered < MaxDeliveries
  /\ \E e \in PaymentPayloads : ReceivePayment(t, e)

\* deliveries one after the other: a handler starts when none is running
Next ==
  \E t \in Tasks : DeliverInvoice(t) \/ DeliverPayment(t) \/ Step(t) \/ Return(t)

Spec == Init /\ [][Next]_vars

\* a duplicate delivery that may find another handler at an await
OverlapInvoice(t) ==
  /\ delivered < MaxOverlap
  /\ \E e \in OverlapInvoicePayloads : ReceiveInvoice(t, e)

OverlapPayment(t) ==
  /\ delivered < MaxOverlap
  /\ \E e \in OverlapPaymentPayloads : ReceivePayment(t, e)

\* deliveries may overlap: a handler starts while another is at an await
NextOverlap ==
  \E t \in Tasks : OverlapInvoice(t) \/ OverlapPayment(t) \/ Step(t) \/ Return(t)

SpecOverlap == Init /\ [][NextOverlap]_vars

\* a delivery to POST /webhooks/ghl/task-completed
DeliverTaskCompleted(t) ==
  /\ AllFree
  /\ delivered < MaxStageDeliveries
  /\ \E e \in TaskPayloads : ReceiveTaskCompleted(t, e)

StageStep(t) ==
  \/ \E ok \in BOOLEAN : SearchOpportunitiesByContact(t, ok)
  \/ \E ok \in BOOLEAN : GetOpportunityStage(t, ok)
  \/ \E ok \in BOOLEAN : FetchStageMapping(t, ok)
  \/ \E ok \in BOOLEAN : UpdateOpportunityStage(t, ok)

\* the stage-transition protocol, deliveries one after the other
NextStage == \E t \in Tasks : DeliverTaskCompleted(t) \/ StageStep(t) \/ Return(t)

SpecStage == InitStage /\ [][NextStage]_vars

\* a step of the running pollUntil call
PollStep == PollWait \/ \E items, relation \in BOOLEAN : PollCheck(items, relation)

NextPoll == (\E n \in 1..MaxPollAttempts : PollStart(n)) \/ PollStep \/ PollReturn

\* the poller blocks its worker: a check returns and a delay passes
SpecPoll == Init /\ [][NextPoll]_vars /\ WF_vars(PollStep)

\* a delivery of a custom-object invoice event
DeliverCustomInvoice(t) ==
  /\ AllFree
  /\ delivered < MaxCustom
  /\ \E e \in CustomInvoicePayloads : ReceiveCustomInvoice(t, e)

CustomStep(t) ==
  \/ \E ok \in BOOLEAN : CustomSaveInvoice(t, ok)
  \/ CustomAfterPoll(t)
  \/ \E ok \in BOOLEAN : ConfidoCreateClient(t, ok)
  \/ \E ok \in BOOLEAN : ConfidoCreateMatter(t, ok)
  \/ \E ok \in BOOLEAN : ConfidoCreatePaymentLink(t, ok)
  \/ \E ok \in BOOLEAN : CustomUpdateInvoice(t, ok)
  \/ \E ok \in BOOLEAN : CustomMirror(t, ok)

\* invoice creation from custom objects, deliveries one after the other,
\* each waiting on the poller it called
NextCustom ==
  \/ \E t \in Tasks : DeliverCustomInvoice(t) \/ CustomStep(t) \/ Return(t)
  \/ PollStep

SpecCustom == Init /\ [][NextCustom]_vars

\* a delivery to one of the handlers that write the invoices table
DeliverLedger(t) ==
  /\ AllFree
  /\ delivered < MaxLedger
  /\ \/ \E e \in OverlapInvoicePayloads : ReceiveInvoice(t, e)
     \/ \E e \in OverlapPaymentPayloads : ReceivePayment(t, e)
     \/ \E e \in InvoiceDeletedPayloads : ReceiveInvoiceDeleted(t, e)

\* creation, payment and deletion events, deliveries one after the other
NextLedger ==
  \E t \in Tasks :
    \/ DeliverLedger(t)
    \/ Step(t)
    \/ \E ok \in BOOLEAN : CancelInvoice(t, ok)
    \/ Return(t)

SpecLedger == Init /\ [][NextLedger]_vars

\* the payloads of the ingestor's behaviours: the malformed ones and one
\* well-formed payload of each kind
IngestInvoicePayloads ==
  {e \in InvoicePayloads : e.ghl = NULL \/ e.amountDue = 0 \/ (e.ghl = "INV1" /\ e.status = NULL)}

IngestPaymentPayloads ==
  {e \in PaymentPayloads :
     \/ e.pid = NULL \/ e.confInv = 0 \/ e.amount = 0 \/ e.sig # "valid"
     \/ (e.pid = "P1" /\ e.confInv = 1 /\ e.amount = 2)}

IngestTaskPayloads ==
  {e \in TaskPayloads : e.contactId = NULL \/ e.title = NULL
                          \/ (e.title = FinalTaskTitle /\ e.opportunityId = NULL)}

\* the form submissions of the ingestor's behaviours: on
\* /webhooks/intakeForm contact C1 as a duplicate with PDF and the new
\* contact C2 without, complete or lacking one part; on the two jotform
\* endpoints the new contact C2 and the duplicate C1 with and without a
\* phone number, and on /webhook/jotform-intake a body without rawRequest
IngestFormPayloads ==
  {e \in FormPayloads :
     \/ /\ e.endpoint = "intakeForm" /\ e.rawRequest /\ e.submissionID /\ e.complete
        /\ e.known = (e.contact = "C1") /\ e.pdf = e.known
     \/ /\ e.endpoint = "intakeForm" /\ e.contact = "C2" /\ ~e.known /\ ~e.pdf
        /\ e.phone = e.complete
        /\ \/ (~e.rawRequest /\ e.submissionID /\ e.complete)
           \/ (e.rawRequest /\ ~e.submissionID /\ e.complete)
           \/ (e.rawRequest /\ e.submissionID /\ ~e.complete)
     \/ /\ e.endpoint # "intakeForm" /\ e.rawRequest /\ e.submissionID /\ ~e.pdf
        /\ e.complete = e.phone /\ e.known = (e.contact = "C1")
        /\ e.contact = "C2" => e.phone
     \/ /\ e.endpoint = "jotform-intake" /\ e.contact = "C2" /\ ~e.known /\ ~e.pdf
        /\ ~e.rawRequest /\ e.submissionID /\ e.complete}

\* a delivery to any of the webhook endpoints
DeliverAny(t) ==
  /\ AllFree
  /\ delivered < MaxIngest
  /\ \/ \E e \in IngestInvoicePayloads : ReceiveInvoice(t, e)
     \/ \E e \in IngestPaymentPayloads : ReceivePayment(t, e)
     \/ \E e \in IngestTaskPayloads : ReceiveTaskCompleted(t, e)
     \/ \E e \in StageChangePayloads : ReceiveStageChanged(t, e)
     \/ \E e \in SurveyPayloads : ReceiveSurvey(t, e)
     \/ \E e \in IngestFormPayloads : ReceiveForm(t, e)

\* the awaits of the form handlers
FormStep(t) ==
  \/ \E ok \in BOOLEAN : CreateGHLContact(t, ok)
  \/ \E ok \in BOOLEAN : FindExistingContact(t, ok)
  \/ \E ok \in BOOLEAN : UpdateGHLContact(t, ok)
  \/ \E ok, idAtTop \in BOOLEAN : CreateGHLOpportunity(t, ok, idAtTop)
  \/ \E ok \in BOOLEAN : HasExistingPdf(t, ok)
  \/ \E ok \in BOOLEAN : DownloadPdfFromJotForm(t, ok)
  \/ \E ok \in BOOLEAN : UploadPdfToGHL(t, ok)

CrmStep(t) ==
  \/ \E ok \in BOOLEAN, n \in 0..MaxStageTasks : GetTasksForStage(t, ok, n)
  \/ \E ok \in BOOLEAN : CreateGHLTask(t, ok)
  \/ \E ok \in BOOLEAN : SurveySearch(t, ok)
  \/ \E ok \in BOOLEAN : CheckOpportunityStage(t, ok)
  \/ \E ok \in BOOLEAN : SurveyUpdateStage(t, ok)

\* the CRM with the mapping table filled; ledger and billing system empty
InitIngest ==
  /\ invoices = {}
  /\ payments = {}
  /\ nextRowId = 1
  /\ nextPayId = 1
  /\ cfClients = 0
  /\ cfMatters = 0
  /\ cfLinks = {}
  /\ crmPayments = 0
  /\ crmTasks = 0
  /\ crmObjects = {}
  /\ task = [t \in Tasks |-> IdleTask]
  /\ opps = [o \in OppIds |-> [contact |-> "C1", status |-> "open",
                                pipeline |-> "PL1", stage |-> "S1"]]
  /\ mappings = MappingRules
  /\ delivered = 0
  /\ last = [kind |-> NULL, ev |-> NULL, resp |-> NoResp]
  /\ poll = IdlePoll

\* all webhook endpoints, deliveries one after the other
NextIngest ==
  \E t \in Tasks :
    DeliverAny(t) \/ Step(t) \/ StageStep(t) \/ CrmStep(t) \/ FormStep(t) \/ Return(t)

SpecIngest == InitIngest /\ [][NextIngest]_vars

\* the CRM with opportunities of contact C1 open or won, in the expected
\* stage or past it, and the mapping table filled
InitResolve ==
  /\ invoices = {}
  /\ payments = {}
  /\ nextRowId = 1
  /\ nextPayId = 1
  /\ cfClients = 0
  /\ cfMatters = 0
  /\ cfLinks = {}
  /\ crmPayments = 0
  /\ crmTasks = 0
  /\ crmObjects = {}
  /\ task = [t \in Tasks |-> IdleTask]
  /\ opps \in [OppIds -> [contact : {"C1"}, status : {"open", "won"},
                          pipeline : {"PL1"}, stage : {"S1", "S2"}]]
  /\ mappings = MappingRules
  /\ delivered = 0
  /\ last = [kind |-> NULL, ev |-> NULL, resp |-> NoResp]
  /\ poll = IdlePoll

\* complete submissions to /webhooks/intakeForm: the known contact C1 with
\* PDF and the new contact C2 without
ResolveFormPayloads ==
  {e \in FormPayloads :
     /\ e.endpoint = "intakeForm" /\ e.rawRequest /\ e.submissionID /\ e.complete
     /\ e.known = (e.contact = "C1") /\ e.pdf = e.known}

\* a delivery to one of the two handlers that resolve an opportunity, or a
\* form submission that gives the contact one more opportunity
DeliverResolve(t) ==
  /\ AllFree
  /\ delivered < MaxResolve
  /\ \/ \E e \in TaskPayloads : ReceiveTaskCompleted(t, e)
     \/ \E e \in SurveyPayloads : ReceiveSurvey(t, e)
     \/ \E e \in ResolveFormPayloads : ReceiveForm(t, e)

SurveyStep(t) ==
  \/ \E ok \in BOOLEAN : SurveySearch(t, ok)
  \/ \E ok \in BOOLEAN : CheckOpportunityStage(t, ok)
  \/ \E ok \in BOOLEAN : SurveyUpdateStage(t, ok)

\* task completions and survey completions, deliveries one after the other
NextResolve ==
  \E t \in Tasks :
    DeliverResolve(t) \/ StageStep(t) \/ SurveyStep(t) \/ FormStep(t) \/ Return(t)

SpecResolve == InitResolve /\ [][NextResolve]_vars

\* a survey or task completion arrives while another request may be waiting
DeliverSurvey(t) ==
  /\ delivered < MaxSurvey
  /\ \/ \E e \in SurveyPayloads : ReceiveSurvey(t, e)
     \/ \E e \in TaskPayloads : ReceiveTaskCompleted(t, e)

\* survey completions overlapping with task completions that move stages
NextSurvey ==
  \E t \in Tasks : DeliverSurvey(t) \/ SurveyStep(t) \/ StageStep(t) \/ Return(t)

SpecSurvey == InitResolve /\ [][NextSurvey]_vars

\* =============================================================== claims
Done(t, kind) == task[t].pc = "done" /\ task[t].kind = kind

\* every gateway call of the invocation succeeded
AllCallsOk(t) == \A i \in 1..Len(task[t].calls) : task[t].calls[i].ok

CreatedInBoth == "Invoice created successfully in both systems"

\* C1: a sequential replay of an InvoiceCreated delivery that had been
\* answered "created in both systems" leaves exactly one ledger row for the
\* CRM invoice id and the invoices table as the first delivery left it.
C1_ReplayLeavesLedgerIdentical ==
  \A t \in Tasks :
    (Done(t, "invoice") /\ task[t].replay /\ task[t].preResp.msg = CreatedInBoth)
      => /\ Cardinality(RowsByGhl(task[t].ev.ghl)) = 1
         /\ invoices = task[t].pre.invoices

\* C2: no billing payment id ever has two payment rows; and when a delivery of
\* a PaymentReceived event has been processed (all its calls went through),
\* be it the first or a replay, there is exactly one row for its payment id,
\* carrying the event's amount, and the invoice's amount_paid is that amount.
C2_PaymentReplayNotDoubleCounted ==
  /\ \A p \in PaymentIds : Cardinality(PaymentRowsById(p)) <= 1
  /\ \A t \in Tasks :
       (Done(t, "payment") /\ task[t].resp.code = 200 /\ AllCallsOk(t))
         => /\ Cardinality(PaymentRowsById(task[t].ev.pid)) = 1
            /\ \A r \in PaymentRowsById(task[t].ev.pid) : r.amount = task[t].ev.amount
            /\ \A r \in RowsByConfido(task[t].ev.confInv) :
                 r.amountPaid = task[t].ev.amount

\* C2 witness: a replayed payment delivery has been processed after the first
\* one was processed
C2_Witness ==
  \E t \in Tasks :
    /\ Done(t, "payment") /\ task[t].replay
    /\ task[t].resp.code = 200 /\ task[t].preResp.code = 200
    /\ AllCallsOk(t)
    /\ task[t].pre.payments # {}
    /\ RowsByConfido(task[t].ev.confInv) # {}

\* C3: an invoice-creation attempt whose payment-link creation signalled
\* DuplicatePaymentLink is answered without error and with the payment URL
\* the earlier attempt stored in the ledger row of that CRM invoice id.
C3_DuplicateLinkReturnsStoredUrl ==
  \A t \in Tasks :
    (Done(t, "invoice") /\ task[t].resp.error = "DuplicatePaymentLink")
      => /\ task[t].resp.code = 200
         /\ task[t].resp.url # 0
         /\ \E r \in RowsByGhl(task[t].ev.ghl) : r.paymentUrl = task[t].resp.url

\* C6: (a) a first InvoiceCreated delivery carrying no status leaves a
\* pending row once it is persisted; (b) when it has been answered with all
\* gateways succeeding, the row is unpaid with payment URL and billing
\* identifiers set; (c) a processed PaymentReceived of amount A leaves the
\* invoice paid with amount_paid = A and exactly one payments row.
C6_EndToEndScenario ==
  \A t \in Tasks :
    /\ (task[t].kind = "invoice" /\ task[t].pc = "cf_client"
        /\ task[t].ev.status = NULL /\ RowsByGhl(task[t].ev.ghl) \cap task[t].pre.invoices = {}
        /\ \A r \in task[t].pre.invoices : r.ghl # task[t].ev.ghl)
         => \A r \in RowsByGhl(task[t].ev.ghl) : r.status = "pending"
    /\ (Done(t, "invoice") /\ task[t].resp.msg = CreatedInBoth /\ AllCallsOk(t)
        /\ \A r \in task[t].pre.invoices : r.ghl # task[t].ev.ghl)
         => /\ Cardinality(RowsByGhl(task[t].ev.ghl)) = 1
            /\ \A r \in RowsByGhl(task[t].ev.ghl) :
                 /\ r.status = "unpaid"
                 /\ r.confInv # 0 /\ r.confClient # 0 /\ r.confMatter # 0
                 /\ r.paymentUrl # 0
    /\ (Done(t, "payment") /\ task[t].resp.code = 200 /\ AllCallsOk(t))
         => /\ \A r \in RowsByConfido(task[t].ev.confInv) :
                 r.status = "paid" /\ r.amountPaid = task[t].ev.amount
            /\ Cardinality(PaymentRowsById(task[t].ev.pid)) = 1

\* C7: in every ledger state there is at most one invoice row per CRM
\* invoice id.
C7_OneRowPerCrmInvoiceId ==
  \A g \in GhlIds : Cardinality(RowsByGhl(g)) <= 1

\* C7 witness: an invoice that was created, linked, paid and then delivered
\* again still has its single row
C7_Witness ==
  \E t \in Tasks :
    /\ Done(t, "invoice") /\ task[t].resp.code = 200
    /\ \E r \in task[t].pre.invoices : r.ghl = task[t].ev.ghl /\ r.status = "paid"
    /\ Cardinality(RowsByGhl(task[t].ev.ghl)) = 1

\* C8: while and after two handlers process InvoiceCreated for the same CRM
\* invoice id with overlapping steps, the ledger has at most one row for the
\* id, exactly one once either has saved, and no handler is answered with a
\* unique-key conflict of the ledger.
C8_ConcurrentDuplicatesOneRow ==
  /\ \A g \in GhlIds : Cardinality(RowsByGhl(g)) <= 1
  /\ \A t \in Tasks :
       /\ task[t].resp.error # "DuplicateKey"
       /\ (task[t].kind = "invoice" /\ \E i \in 1..Len(task[t].calls) :
             task[t].calls[i] = [op |-> "saveInvoice", ok |-> TRUE])
            => Cardinality(RowsByGhl(task[t].ev.ghl)) = 1

\* C8 witness: both handlers have answered after their saves interleaved (the
\* one that saved first got the duplicate signal of the other's payment link)
C8_Witness ==
  \E t, u \in Tasks :
    /\ t # u
    /\ Done(t, "invoice") /\ Done(u, "invoice")
    /\ task[t].ev.ghl = task[u].ev.ghl
    /\ task[t].resp.msg = CreatedInBoth
    /\ task[u].resp.error = "DuplicatePaymentLink"
    /\ task[u].pre.invoices = {} /\ task[t].pre.invoices = {}
    /\ Cardinality(RowsByGhl(task[t].ev.ghl)) = 1

\* C9: a payment row, once created, is never changed or removed by a later
\* step.
C9_PaymentRowsImmutable ==
  [][\A r \in payments : r \in payments']_vars

\* the calls that write the ledger or reach the CRM
WritingCalls ==
  {"updateInvoicePaymentStatus", "savePayment", "recordInvoicePayment", "createTask"}

\* C10: a PaymentReceived delivery answered 404 made no ledger write and no
\* CRM call, and ledger and CRM are as the delivery found them.
C10_NotFoundChangesNothing ==
  \A t \in Tasks :
    (Done(t, "payment") /\ task[t].resp.code = 404)
      => /\ \A i \in 1..Len(task[t].calls) : task[t].calls[i].op \notin WritingCalls
         /\ invoices = task[t].pre.invoices
         /\ payments = task[t].pre.payments
         /\ crmPayments = task[t].pre.crmPayments
         /\ crmTasks = task[t].pre.crmTasks

\* C10 witness: a payment for an unknown billing invoice id was answered 404
\* while the ledger holds a linked invoice
C10_Witness ==
  \E t \in Tasks :
    /\ Done(t, "payment") /\ task[t].resp.code = 404
    /\ task[t].calls = <<[op |-> "getInvoiceByconfidoId", ok |-> FALSE]>>
    /\ RowsByConfido(task[t].ev.confInv) = {}
    /\ \E r \in invoices : r.confInv # 0

\* the pipeline and stage of every opportunity
StagesNow ==
  [o \in DOMAIN opps |-> [pipeline |-> opps[o].pipeline, stage |-> opps[o].stage]]

\* the table holds no active row for the stage, or active rows without target
NoUsableRule(stage) ==
  \A m \in mappings : (m.source = stage /\ m.active) => m.targetStage = NULL

\* C5: a TaskCompleted delivery with the final-task title whose calls all went
\* through and whose opportunity is in a stage with no active mapping rule, or
\* with an active rule lacking a target stage, is answered 200 with a no-op
\* message, made no opportunity update, and left every opportunity's stage.
C5_NoRuleIsSuccessfulNoOp ==
  \A t \in Tasks :
    (/\ Done(t, "taskCompleted")
     /\ task[t].ev.title = FinalTaskTitle
     /\ AllCallsOk(t)
     /\ task[t].cur # NoStage
     /\ NoUsableRule(task[t].cur.stage))
      => /\ task[t].resp.code = 200
         /\ task[t].resp.error = NULL
         /\ task[t].resp.msg \in {"No stage mapping configured",
                                  "Target stage ID not configured yet"}
         /\ \A i \in 1..Len(task[t].calls) :
              task[t].calls[i].op # "updateOpportunityStage"
         /\ StagesNow = task[t].pre.stages

\* a final-task delivery met a stage whose only rule is inactive, after an
\* earlier delivery had moved an opportunity through an active rule
C5_Witness ==
  \E t \in Tasks :
    /\ Done(t, "taskCompleted")
    /\ task[t].ev.title = FinalTaskTitle
    /\ AllCallsOk(t)
    /\ task[t].cur # NoStage
    /\ NoUsableRule(task[t].cur.stage)
    /\ \E m \in mappings : m.source = task[t].cur.stage /\ ~m.active
    /\ task[t].resp.msg = "No stage mapping configured"
    /\ \E o \in OppIds : opps[o].pipeline = "PL2"

\* a final-task delivery met an active rule without a target stage
C5_WitnessNoTarget ==
  \E t \in Tasks :
    /\ Done(t, "taskCompleted")
    /\ task[t].ev.title = FinalTaskTitle
    /\ \E m \in mappings : m.source = task[t].cur.stage /\ m.active /\ m.targetStage = NULL
    /\ task[t].resp.msg = "Target stage ID not configured yet"

\* no check of the running call has reported complete
NeverComplete == \A i \in 1..Len(poll.checks) : ~Complete(poll.checks[i])

\* C4: pollUntil never makes more than maxAttempts checks; when no check
\* reported complete it returns Exhausted after exactly maxAttempts checks,
\* with one delay between two checks; and every call returns.
C4_PollExhaustsAfterMaxAttempts ==
  /\ [](/\ Len(poll.checks) <= poll.maxAttempts
        /\ (poll.pc = "returned" /\ NeverComplete)
             => /\ poll.result = "Exhausted"
                /\ Len(poll.checks) = poll.maxAttempts
                /\ poll.waits = poll.maxAttempts - 1
        /\ (poll.pc # "returned" /\ poll.pc # "idle") => poll.result = NULL)
  /\ ((poll.pc \in {"check", "wait"}) ~> (poll.pc = "returned"))

\* a call with the observed cap of 6 returned Exhausted after six checks
\* that each found a different part missing
C4_Witness ==
  /\ poll.pc = "returned"
  /\ poll.maxAttempts = 6
  /\ NeverComplete
  /\ Len(poll.checks) = 6
  /\ poll.result = "Exhausted"
  /\ \E i, j \in 1..6 : poll.checks[i].items /\ poll.checks[j].relation

\* the payload of a delivery lacks the correlation key of its kind
LacksKey(kind, e) ==
  CASE kind = "invoice" -> e.ghl = NULL
    [] kind = "payment" -> e.pid = NULL \/ e.confInv = 0
    [] kind = "stageChanged" -> e.opportunityId = NULL
    [] kind = "taskCompleted" -> e.contactId = NULL
    [] kind = "survey" -> e.contactId = NULL
    [] OTHER -> FALSE

\* C11: a delivery whose payload lacks the correlation key of its kind is
\* answered with a 4xx code at once: it never waits on a gateway, it made no
\* gateway call, and ledger, CRM and opportunity stages are as it found them.
C11_MalformedRejectedBeforeReconciler ==
  \A t \in Tasks :
    (task[t].pc # "idle" /\ LacksKey(task[t].kind, task[t].ev))
      => /\ task[t].pc = "done"
         /\ task[t].resp.code \in 400..499
         /\ task[t].calls = <<>>
         /\ invoices = task[t].pre.invoices
         /\ payments = task[t].pre.payments
         /\ crmPayments = task[t].pre.crmPayments
         /\ crmTasks = task[t].pre.crmTasks
         /\ StagesNow = task[t].pre.stages

\* a stage-change delivery without opportunity id was rejected when the
\* ledger already held an invoice row
C11_Witness ==
  \E t \in Tasks :
    /\ Done(t, "stageChanged")
    /\ task[t].ev.opportunityId = NULL
    /\ task[t].resp.code = 400
    /\ invoices # {}

\* the order in which createInvoice makes its three creations
BillingOrder == <<"createClient", "createMatter", "createPaymentLink">>

IsBillingCall(c) == \E i \in 1..Len(BillingOrder) : c.op = BillingOrder[i]

\* the billing creations an invocation has attempted, in order
BillingCalls(t) == SelectSeq(task[t].calls, IsBillingCall)

\* C12: the billing creations of every invoice invocation are a prefix of
\* client, matter, payment link; each one but the last attempted succeeded
\* (a failed step is followed by no later step), a matter id is held only
\* with a client id and a link id only with a matter id.
C12_BillingOrderClientMatterLink ==
  \A t \in Tasks :
    LET b == BillingCalls(t)
    IN /\ Len(b) <= Len(BillingOrder)
       /\ \A i \in 1..Len(b) : b[i].op = BillingOrder[i]
       /\ \A i \in 1..(Len(b) - 1) : b[i].ok
       /\ task[t].cf.matter # 0 => task[t].cf.client # 0
       /\ task[t].cf.link # 0 => task[t].cf.matter # 0

\* a second invocation stopped at a failed matter creation after its client
\* was created, while an earlier one had created all three
C12_Witness ==
  \E t \in Tasks :
    /\ Done(t, "invoice")
    /\ BillingCalls(t) = <<[op |-> "createClient", ok |-> TRUE],
                           [op |-> "createMatter", ok |-> FALSE]>>
    /\ cfLinks # {}

\* the billing system holds what the delivery of t found there
BillingAsFound(t) ==
  /\ cfClients = task[t].pre.clients
  /\ cfMatters = task[t].pre.matters
  /\ cfLinks = task[t].pre.links

\* C13: a custom-object invoice invocation whose pollUntil call returned
\* Exhausted takes one step more, the structured incomplete answer naming
\* what stayed missing; an invocation so answered made no billing call and
\* left the billing system without a new client, matter or payment link.
C13_ExhaustedPollCreatesNoBilling ==
  /\ [](\A t \in Tasks :
          (Done(t, "customInvoice") /\ task[t].resp.error = "IncompleteData")
            => /\ BillingCalls(t) = <<>>
               /\ BillingAsFound(t)
               /\ task[t].missing # {})
  /\ [][\A t \in Tasks :
          (/\ task[t].pc = "co_poll"
           /\ poll.pc = "returned" /\ poll.result = "Exhausted"
           /\ task'[t] # task[t])
            => /\ task'[t].pc = "done"
               /\ task'[t].resp.error = "IncompleteData"
               /\ task'[t].missing = poll.missing
               /\ <<cfClients, cfMatters, cfLinks>>' = <<cfClients, cfMatters, cfLinks>>]_vars

\* an invocation was answered incomplete with only the service items
\* missing, after an earlier delivery had created its billing artifacts
C13_Witness ==
  \E t \in Tasks :
    /\ Done(t, "customInvoice")
    /\ task[t].resp.error = "IncompleteData"
    /\ task[t].missing = {"serviceItems"}
    /\ cfLinks # {}

\* the invocation made the call op, with outcome ok
HasCall(t, op, ok) ==
  \E i \in 1..Len(task[t].calls) : task[t].calls[i] = [op |-> op, ok |-> ok]

Attempted(t, op) == HasCall(t, op, TRUE) \/ HasCall(t, op, FALSE)

\* the invoice row the payment of t applies to carries an opportunity
PaidRowHasOpportunity(t) ==
  \E r \in RowsByConfido(task[t].ev.confInv) : r.opp # NULL

\* C14: in a payment invocation that reached the CRM payment mirror, (a) the
\* notification task is attempted whatever the mirror's outcome when the
\* invoice has an opportunity, (b) the mirror's record stays in the CRM when
\* the task fails, (c) the answer is 200, and (d) the invoice stays paid with
\* the event's amount and the payment row written by the invocation stays.
C14_BestEffortStepsIsolated ==
  \A t \in Tasks :
    (task[t].kind = "payment" /\ Attempted(t, "recordInvoicePayment"))
      => /\ PaidRowHasOpportunity(t)
              => (task[t].pc = "pay_task" \/ Attempted(t, "createTask"))
         /\ HasCall(t, "recordInvoicePayment", TRUE)
              => crmPayments = task[t].pre.crmPayments + 1
         /\ task[t].pc = "done" => task[t].resp = PaymentProcessed
         /\ \A r \in RowsByConfido(task[t].ev.confInv) :
              r.status = "paid" /\ r.amountPaid = task[t].ev.amount
         /\ HasCall(t, "savePayment", TRUE)
              => \E p \in PaymentRowsById(task[t].ev.pid) :
                   p.confInv = task[t].ev.confInv /\ p.amount = task[t].ev.amount

\* a payment was answered 200 although mirror and task both failed
C14_Witness ==
  \E t \in Tasks :
    /\ Done(t, "payment")
    /\ HasCall(t, "recordInvoicePayment", FALSE)
    /\ HasCall(t, "createTask", FALSE)
    /\ HasCall(t, "savePayment", TRUE)
    /\ task[t].resp.code = 200

\* the mirror succeeded and the task failed
C14_WitnessTaskFailed ==
  \E t \in Tasks :
    /\ Done(t, "payment")
    /\ HasCall(t, "recordInvoicePayment", TRUE)
    /\ HasCall(t, "createTask", FALSE)
    /\ crmPayments = task[t].pre.crmPayments + 1

\* a step back along pending, unpaid, paid
StatusRegresses(old, new) ==
  \/ old = "paid" /\ new \in {"unpaid", "pending"}
  \/ old = "unpaid" /\ new = "pending"

\* C15: no step takes the ledger row of a CRM invoice id back from paid to
\* unpaid or pending, nor from unpaid to pending.
C15_StatusOnlyMovesForward ==
  [][\A r \in invoices : \A n \in invoices' :
       r.ghl = n.ghl => ~StatusRegresses(r.status, n.status)]_vars

\* C16: every step keeps every row of the invoices table, under its id and
\* CRM invoice id; and a deletion event that was answered 200 left the row
\* of its CRM invoice id in the table with status cancelled.
C16_InvoiceRowsNeverRemoved ==
  /\ [][\A r \in invoices : \E n \in invoices' : n.id = r.id /\ n.ghl = r.ghl]_vars
  /\ [](\A t \in Tasks :
          (Done(t, "invoiceDeleted") /\ task[t].resp.code = 200)
            => /\ Cardinality(invoices) = Cardinality(task[t].pre.invoices)
               /\ \E r \in RowsByGhl(task[t].ev.ghl) : r.status = "cancelled")

\* a deletion event cancelled the row of a paid invoice, and a replayed
\* creation event had rewritten a row before
C16_Witness ==
  \E t \in Tasks :
    /\ Done(t, "invoiceDeleted")
    /\ task[t].resp.code = 200
    /\ \E r \in task[t].pre.invoices : r.status = "paid"
    /\ \E r \in invoices : r.status = "cancelled" /\ r.amountPaid > 0

\* C17: whenever a payment invocation has set its invoice to paid, the
\* payments table holds a row for the invocation's billing payment id.
C17_PaymentRowBeforeInvoiceUpdate ==
  \A t \in Tasks :
    (task[t].kind = "payment" /\ HasCall(t, "updateInvoicePaymentStatus", TRUE))
      => PaymentRowsById(task[t].ev.pid) # {}

\* C18: the answer of a payment invocation whose CRM payment mirror or CRM
\* notification task failed names the failure: it is not the plain answer
\* of a payment whose steps all succeeded.
C18_ResponseNamesFailedBestEffortStep ==
  \A t \in Tasks :
    (/\ Done(t, "payment")
     /\ task[t].resp.code = 200
     /\ (HasCall(t, "recordInvoicePayment", FALSE) \/ HasCall(t, "createTask", FALSE)))
      => task[t].resp.error # NULL

\* the answer to a billing failure that is not the duplicate-link signal
FailedOtherThanDuplicate(r) ==
  /\ r.msg = "Invoice saved but Confido creation failed"
  /\ r.error # "DuplicatePaymentLink"

\* C19: the step in which billing creation fails with an error other than
\* DuplicatePaymentLink leaves the invoices table as it is, and after it the
\* row of the CRM invoice id is the one step 1 wrote: present once, billing
\* identifiers null, status the payload's or pending; the other rows are
\* those the delivery found.
C19_BillingFailureKeepsPersistedRow ==
  /\ [][\A t \in Tasks :
          (/\ task[t].pc \in {"cf_client", "cf_matter", "cf_link"}
           /\ task'[t].pc = "done"
           /\ FailedOtherThanDuplicate(task'[t].resp))
            => invoices' = invoices]_vars
  /\ [](\A t \in Tasks :
          (Done(t, "invoice") /\ FailedOtherThanDuplicate(task[t].resp))
            => /\ Cardinality(RowsByGhl(task[t].ev.ghl)) = 1
               /\ \A r \in RowsByGhl(task[t].ev.ghl) :
                    /\ r.confInv = 0 /\ r.confClient = 0 /\ r.confMatter = 0
                    /\ r.status = IF task[t].ev.status = NULL THEN "pending"
                                                              ELSE task[t].ev.status
                    /\ r.amountDue = task[t].ev.amountDue
               /\ \A r \in task[t].pre.invoices :
                    r.ghl # task[t].ev.ghl => r \in invoices)

\* a matter creation failed after the client was created, the ledger holding
\* the row of another invoice as well
C19_Witness ==
  \E t \in Tasks :
    /\ Done(t, "invoice")
    /\ FailedOtherThanDuplicate(task[t].resp)
    /\ HasCall(t, "createClient", TRUE)
    /\ HasCall(t, "createMatter", FALSE)
    /\ Cardinality(invoices) = 2
    /\ \E r \in RowsByGhl(task[t].ev.ghl) : r.confInv = 0 /\ r.status = "pending"

\* the first ledger write of the invocation failed
FirstSaveFailed(t) ==
  /\ task[t].kind = "invoice"
  /\ \E i \in 1..Len(task[t].calls) :
       /\ task[t].calls[i] = [op |-> "saveInvoice", ok |-> FALSE]
       /\ \A j \in 1..(i - 1) : task[t].calls[j].op = "getContact"

\* C20: an InvoiceCreated invocation whose initial ledger upsert failed is
\* over and answered 500; the failed upsert is its last gateway call, before
\* it the invocation made at most the one read of the contact, and invoices
\* table and billing system are as the delivery found them.
C20_FailedFirstSaveStopsProtocol ==
  \A t \in Tasks :
    FirstSaveFailed(t)
      => /\ task[t].pc = "done"
         /\ task[t].resp.code = 500
         /\ task[t].calls[Len(task[t].calls)] = [op |-> "saveInvoice", ok |-> FALSE]
         /\ Len(task[t].calls) <= 2
         /\ \A i \in 1..(Len(task[t].calls) - 1) : task[t].calls[i].op = "getContact"
         /\ BillingAsFound(t)
         /\ invoices = task[t].pre.invoices

\* the upsert of a replay failed after the first delivery had created the
\* billing artifacts
C20_Witness ==
  \E t \in Tasks :
    /\ FirstSaveFailed(t)
    /\ task[t].calls[1].op = "getContact"
    /\ task[t].pc = "done"
    /\ task[t].replay
    /\ cfLinks # {}
    /\ \E r \in invoices : r.confInv # 0

\* an invocation's creation of a billing artifact (client, matter or payment
\* link) failed
BillingCreationFailed(t) ==
  \E i \in 1..Len(task[t].calls) :
    /\ task[t].calls[i].op \in {"createClient", "createMatter", "createPaymentLink"}
    /\ ~task[t].calls[i].ok

\* C21: an InvoiceCreated request whose billing-artifact creation failed is
\* answered with a non-success result (an error status), so that the sender
\* redelivers.
C21_BillingFailureFailsRequest ==
  \A t \in Tasks :
    (Done(t, "invoice") /\ BillingCreationFailed(t)) => task[t].resp.code >= 400

SavedButBillingFailed == "Invoice saved but Confido creation failed"

\* C22: when an InvoiceCreated delivery whose billing-artifact creation
\* failed is redelivered and the gateways succeed, the redelivery is answered
\* "created in both systems" and the invoice's ledger row is BillingLinked:
\* billing identifiers and payment URL stored, status unpaid.
C22_RedeliveryAfterFailureReachesLinked ==
  \A t \in Tasks :
    (/\ Done(t, "invoice") /\ task[t].replay
     /\ task[t].preResp.msg = SavedButBillingFailed
     /\ task[t].preResp.error = GatewayError
     /\ AllCallsOk(t))
      => /\ task[t].resp.msg = CreatedInBoth
         /\ Cardinality(RowsByGhl(task[t].ev.ghl)) = 1
         /\ \A r \in RowsByGhl(task[t].ev.ghl) :
              /\ r.confInv # 0 /\ r.confClient # 0 /\ r.confMatter # 0
              /\ r.paymentUrl # 0
              /\ r.status = "unpaid"

\* C23: once the first InvoiceCreated for a CRM invoice id has been saved,
\* the ledger row of that id has status pending and null billing identifiers,
\* whatever status the payload carries.
C23_FirstSaveIsPendingWithoutBillingIds ==
  \A t \in Tasks :
    (/\ task[t].kind = "invoice" /\ task[t].pc = "cf_client"
     /\ \A r \in task[t].pre.invoices : r.ghl # task[t].ev.ghl)
      => /\ RowsByGhl(task[t].ev.ghl) # {}
         /\ \A r \in RowsByGhl(task[t].ev.ghl) :
              /\ r.status = "pending"
              /\ r.confInv = 0 /\ r.confClient = 0 /\ r.confMatter = 0

\* a check that found exactly one of service items and relation
Partial(c) == c.items # c.relation

\* C24: on the invoice-creation path, (a) the poller's result is complete
\* only when its last check found service items and opportunity relation
\* both present, no earlier check having found both, and the handler goes on
\* to the billing system only after such a check; (b) a check that finds
\* exactly one of them does not report complete: below the cap the poller
\* goes to its delay, and (c) after the delay it checks again.
C24_PartialCheckKeepsPolling ==
  /\ [](/\ poll.result = "Complete"
             => /\ Len(poll.checks) > 0
                /\ poll.checks[Len(poll.checks)].items
                /\ poll.checks[Len(poll.checks)].relation
                /\ \A i \in 1..(Len(poll.checks) - 1) :
                     ~(poll.checks[i].items /\ poll.checks[i].relation)
        /\ \A t \in Tasks :
             (task[t].kind = "customInvoice" /\ task[t].pc = "co_poll"
              /\ \A i \in 1..Len(poll.checks) : Partial(poll.checks[i]))
               => poll.result # "Complete")
  /\ [][(poll.pc = "check" /\ Len(poll'.checks) = Len(poll.checks) + 1
         /\ Partial(poll'.checks[Len(poll'.checks)]))
          => /\ poll'.result # "Complete"
             /\ (Len(poll'.checks) < poll.maxAttempts
                   => poll'.pc = "wait" /\ poll'.result = NULL)]_vars
  /\ [][(poll.pc = "wait" /\ poll' # poll)
          => poll'.pc = "check" /\ poll'.checks = poll.checks]_vars

\* the poller called by a custom-object invoice handler reported complete at
\* its third check, after one check that found only the service items and
\* one that found only the relation
C24_Witness ==
  /\ \E t \in Tasks : task[t].kind = "customInvoice" /\ task[t].pc = "co_poll"
  /\ poll.pc = "returned" /\ poll.result = "Complete"
  /\ Len(poll.checks) = 3
  /\ poll.checks[1].items /\ ~poll.checks[1].relation
  /\ ~poll.checks[2].items /\ poll.checks[2].relation

\* C25: (a) the mirror step of a custom-object invoice invocation, whatever
\* its outcome, changes neither the invoices table nor the billing system,
\* and a failed mirror is answered with 200; (b) an invocation answered after
\* a failed mirror leaves its single ledger row BillingLinked (billing
\* identifiers and payment URL set, status unpaid) with the payment link it
\* names present in the billing system.
C25_MirrorFailureLeavesLedgerAndBilling ==
  /\ [](\A t \in Tasks :
          (Done(t, "customInvoice")
           /\ \E i \in 1..Len(task[t].calls) :
                task[t].calls[i] = [op |-> "updateCustomObject", ok |-> FALSE])
            => /\ task[t].resp.code = 200
               /\ Cardinality(RowsByGhl(task[t].ev.ghl)) = 1
               /\ \A r \in RowsByGhl(task[t].ev.ghl) :
                    /\ r.confInv # 0 /\ r.confClient # 0 /\ r.confMatter # 0
                    /\ r.paymentUrl # 0 /\ r.paymentUrl = task[t].resp.url
                    /\ r.status = "unpaid"
                    /\ [id |-> r.confInv, ghl |-> r.ghl] \in cfLinks
                    /\ r.confClient <= cfClients /\ r.confMatter <= cfMatters)
  /\ [][\A t \in Tasks :
          (task[t].pc = "co_mirror" /\ task'[t] # task[t])
            => /\ invoices' = invoices
               /\ <<cfClients, cfMatters, cfLinks>>' = <<cfClients, cfMatters, cfLinks>>
               /\ task'[t].resp.code = 200]_vars

\* an invocation was answered after its mirror call failed, the CRM object
\* holding no copy of the payment URL
C25_Witness ==
  \E t \in Tasks :
    /\ Done(t, "customInvoice")
    /\ \E i \in 1..Len(task[t].calls) :
         task[t].calls[i] = [op |-> "updateCustomObject", ok |-> FALSE]
    /\ \A o \in crmObjects : o.ghl # task[t].ev.ghl
    /\ \E r \in RowsByGhl(task[t].ev.ghl) : r.status = "unpaid" /\ r.paymentUrl # 0

\* a well-formed TaskCompleted event whose title is not the sentinel
NotFinalTask(t) ==
  /\ task[t].kind = "taskCompleted"
  /\ task[t].ev.contactId # NULL
  /\ task[t].ev.title # NULL
  /\ task[t].ev.title # FinalTaskTitle

\* C26: an invocation for a TaskCompleted event whose title is not the
\* sentinel never fetches the opportunity's current stage, never reads a
\* mapping rule and never issues a stage update; when its opportunity search
\* (if any) went through it is answered 200 with every opportunity where it
\* was.
C26_NonFinalTitleTakesNoAction ==
  \A t \in Tasks :
    NotFinalTask(t)
      => /\ ~Attempted(t, "getOpportunity")
         /\ ~Attempted(t, "getStageMapping")
         /\ ~Attempted(t, "updateOpportunityStage")
         /\ (task[t].pc = "done" /\ ~HasCall(t, "searchOpportunities", FALSE))
              => /\ task[t].resp.code = 200
                 /\ StagesNow = task[t].pre.stages

\* the active rules with a target stage the table holds for a stage
UsableRules(stage) ==
  {m \in mappings : m.source = stage /\ m.active /\ m.targetStage # NULL}

\* the stage updates an invocation issued
StageUpdates(t) ==
  {i \in 1..Len(task[t].calls) : task[t].calls[i].op = "updateOpportunityStage"}

\* C27: a TaskCompleted invocation with the final-task title that fetched the
\* opportunity's stage and read the mapping table, the stage having an active
\* rule with a target stage, issued exactly one stage update; when the update
\* went through, the resolved opportunity is in that rule's target pipeline
\* and target stage and every other opportunity is where it was.
C27_UsableRuleMovesOpportunityOnce ==
  \A t \in Tasks :
    (/\ Done(t, "taskCompleted")
     /\ task[t].ev.title = FinalTaskTitle
     /\ task[t].cur # NoStage
     /\ HasCall(t, "getStageMapping", TRUE)
     /\ UsableRules(task[t].cur.stage) # {})
      => /\ Cardinality(StageUpdates(t)) = 1
         /\ task[t].opp # NULL
         /\ task[t].ev.opportunityId # NULL => task[t].opp = task[t].ev.opportunityId
         /\ \A o \in OppIds : o # task[t].opp => StagesNow[o] = task[t].pre.stages[o]
         /\ IF HasCall(t, "updateOpportunityStage", TRUE)
              THEN /\ task[t].resp.code = 200
                   /\ \E m \in UsableRules(task[t].cur.stage) :
                        StagesNow[task[t].opp] =
                          [pipeline |-> m.targetPipeline, stage |-> m.targetStage]
              ELSE StagesNow = task[t].pre.stages

\* an opportunity found by search was moved from stage S1 of pipeline PL1 to
\* the rule's target, stage S2 of pipeline PL2
C27_Witness ==
  \E t \in Tasks :
    /\ Done(t, "taskCompleted")
    /\ task[t].ev.title = FinalTaskTitle
    /\ task[t].ev.opportunityId = NULL
    /\ HasCall(t, "updateOpportunityStage", TRUE)
    /\ task[t].cur = [pipeline |-> "PL1", stage |-> "S1"]
    /\ task[t].opp # NULL
    /\ StagesNow[task[t].opp] = [pipeline |-> "PL2", stage |-> "S2"]

\* the invocation resolves an opportunity: a well-formed task completion or
\* survey completion
Resolves(t) ==
  \/ task[t].kind = "survey" /\ task[t].ev.contactId # NULL
  \/ /\ task[t].kind = "taskCompleted"
     /\ task[t].ev.contactId # NULL /\ task[t].ev.title # NULL

\* the opportunity id the webhook carries, if any
GivenOpportunity(t) ==
  IF task[t].kind = "taskCompleted" THEN task[t].ev.opportunityId ELSE NULL

\* the positions of the open opportunities in a search result
OpenAt(found) == {i \in 1..Len(found) : opps[found[i]].status = "open"}

\* C28: (a) an invocation whose webhook carries an opportunity id makes no
\* search and works on that opportunity; (b) one whose webhook carries none
\* and whose search returned opportunities works on the first open one of the
\* result, or on the first returned when none is open; (c) one whose search
\* returned nothing has ended, without fetching or updating an opportunity
\* and with every opportunity where it was. The result of a search is the
\* list the CRM returned, in the order it returned it: the contact's
\* opportunities, each once.
C28_OpportunityResolution ==
  \A t \in Tasks :
    (task[t].pc # "idle" /\ Resolves(t))
      => /\ HasCall(t, "searchOpportunities", TRUE)
              => task[t].found \in SearchResult(task[t].ev.contactId)
         /\ GivenOpportunity(t) # NULL
              => /\ ~Attempted(t, "searchOpportunities")
                 /\ task[t].opp = GivenOpportunity(t)
         /\ (GivenOpportunity(t) = NULL /\ ~HasCall(t, "searchOpportunities", TRUE))
              => task[t].opp = NULL /\ ~Attempted(t, "updateOpportunityStage")
         /\ (GivenOpportunity(t) = NULL /\ HasCall(t, "searchOpportunities", TRUE))
              => LET found == task[t].found
                 IN IF Len(found) = 0
                      THEN /\ task[t].pc = "done"
                           /\ task[t].opp = NULL
                           /\ task[t].calls = <<[op |-> "searchOpportunities", ok |-> TRUE]>>
                           /\ StagesNow = task[t].pre.stages
                      ELSE /\ task[t].opp \in {found[i] : i \in 1..Len(found)}
                           /\ IF OpenAt(found) # {}
                                THEN /\ opps[task[t].opp].status = "open"
                                     /\ \A i \in OpenAt(found) :
                                          \E j \in OpenAt(found) :
                                            j <= i /\ found[j] = task[t].opp
                                ELSE task[t].opp = found[1]

\* a search returned a won opportunity before an open one and the invocation
\* moved the open one
C28_Witness ==
  \E t \in Tasks :
    /\ task[t].pc = "done" /\ Resolves(t)
    /\ GivenOpportunity(t) = NULL
    /\ task[t].found = <<"O1", "O2">>
    /\ opps["O1"].status = "won" /\ opps["O2"].status = "open"
    /\ task[t].opp = "O2"
    /\ HasCall(t, "updateOpportunityStage", TRUE)

\* a search returned nothing and the invocation ended
C28_WitnessEmptySearch ==
  \E t \in Tasks :
    /\ task[t].pc = "done" /\ Resolves(t)
    /\ HasCall(t, "searchOpportunities", TRUE)
    /\ task[t].found = <<>>
    /\ OpportunitiesOf(task[t].ev.contactId) = {}

\* the opportunity is in the pipeline and stage the survey handler expects
InExpectedStage(o) ==
  opps[o].pipeline = ExpectedPipeline /\ opps[o].stage = ExpectedStage

\* the last gateway call of an invocation record went through
LastCallOk(r) == Len(r.calls) > 0 /\ r.calls[Len(r.calls)].ok

AlreadyMoved == "Opportunity already moved to a different stage"

\* C29: (a) a stage check of the survey handler that finds the opportunity
\* outside the expected pipeline/stage ends the request with the "already
\* moved" answer and no change to any opportunity, and one that finds it
\* there goes on to the next check or, after the last check, to the update;
\* (b) the update that goes through puts the opportunity in the fixed next
\* pipeline/stage and ends the request; (c) an invocation answered "already
\* moved" issued no stage update, and one that issued an update issued
\* exactly one, after all its stage checks.
C29_SurveyMovesOnlyFromExpectedStage ==
  /\ [](\A t \in Tasks :
          task[t].kind = "survey"
            => /\ Cardinality(StageUpdates(t)) <= 1
               /\ task[t].resp.msg = AlreadyMoved => StageUpdates(t) = {}
               /\ (StageUpdates(t) # {} \/ task[t].pc = "sv_update")
                    => /\ HasCall(t, "searchOpportunities", TRUE)
                       /\ Cardinality({i \in 1..Len(task[t].calls) :
                            task[t].calls[i] = [op |-> "getOpportunity", ok |-> TRUE]})
                          = SurveyChecks)
  /\ [][\A t \in Tasks :
          (task[t].pc = "sv_check" /\ task'[t] # task[t] /\ LastCallOk(task'[t]))
            => IF InExpectedStage(task[t].opp)
                 THEN /\ task'[t].pc \in {"sv_check", "sv_update"}
                      /\ task'[t].pc = "sv_update" <=> task[t].todo = 1
                      /\ opps' = opps
                 ELSE /\ task'[t].pc = "done"
                      /\ task'[t].resp.code = 200 /\ task'[t].resp.msg = AlreadyMoved
                      /\ opps' = opps]_vars
  /\ [][\A t \in Tasks :
          (task[t].pc = "sv_update" /\ task'[t] # task[t])
            => /\ task'[t].pc = "done"
               /\ Cardinality({i \in 1..Len(task'[t].calls) :
                    task'[t].calls[i].op = "updateOpportunityStage"}) = 1
               /\ IF LastCallOk(task'[t])
                    THEN opps' = [opps EXCEPT
                                    ![task[t].opp].pipeline = PendingPipeline,
                                    ![task[t].opp].stage = PendingStage]
                    ELSE opps' = opps]_vars

\* a survey invocation found the opportunity still in the expected stage at
\* both checks and moved it to the next stage
C29_Witness ==
  \E t \in Tasks :
    /\ Done(t, "survey")
    /\ HasCall(t, "updateOpportunityStage", TRUE)
    /\ task[t].pre.stages[task[t].opp] =
         [pipeline |-> ExpectedPipeline, stage |-> ExpectedStage]
    /\ StagesNow[task[t].opp] = [pipeline |-> PendingPipeline, stage |-> PendingStage]

\* a survey invocation found at its second check that a task completion had
\* moved the opportunity in the meantime, and issued no update
C29_WitnessMovedMeanwhile ==
  \E t \in Tasks :
    /\ Done(t, "survey")
    /\ task[t].resp.msg = AlreadyMoved
    /\ Len(task[t].calls) = 3
    /\ task[t].pre.stages[task[t].opp] =
         [pipeline |-> ExpectedPipeline, stage |-> ExpectedStage]

\* the invoice lookup of a payment invocation met a gateway error: it failed
\* although the ledger holds the row of the billing invoice id
InvoiceLookupError(t) ==
  /\ task[t].kind = "payment"
  /\ HasCall(t, "getInvoiceByconfidoId", FALSE)
  /\ Cardinality(RowsByConfido(task[t].ev.confInv)) = 1

\* a search for opportunities, a fetch of the opportunity or a read of the
\* mapping rule met a gateway error
ResolutionError(t) ==
  /\ task[t].kind \in {"taskCompleted", "survey"}
  /\ \/ HasCall(t, "searchOpportunities", FALSE)
     \/ HasCall(t, "getOpportunity", FALSE)
     \/ HasCall(t, "getStageMapping", FALSE)

\* C30: a payment or stage-transition request that met a gateway error while
\* looking up the invoice, searching opportunities, fetching the opportunity
\* or reading the mapping rule is answered with a 5xx code and issued no
\* stage update.
C30_ResolutionErrorsAreFatal ==
  \A t \in Tasks :
    (task[t].pc = "done" /\ (InvoiceLookupError(t) \/ ResolutionError(t)))
      => /\ task[t].resp.code >= 500
         /\ ~Attempted(t, "updateOpportunityStage")

\* C31: (a) within one request no gateway call is issued again after it
\* failed: a failed call is followed by a call of the same name only in the
\* loop of the stage-changed handler, where each call creates another task;
\* (b) every turn of that loop, failed or not, goes on to the next configured
\* task.
C31_NoInternalRetry ==
  /\ [](\A t \in Tasks :
          \A i, j \in 1..Len(task[t].calls) :
            (i < j /\ task[t].calls[i].op = task[t].calls[j].op /\ ~task[t].calls[i].ok)
              => task[t].kind = "stageChanged" /\ task[t].calls[i].op = "createGHLTask")
  /\ [][\A t \in Tasks :
          (task[t].pc = "sc_create" /\ task'[t] # task[t])
            => /\ task'[t].todo = task[t].todo - 1
               /\ Len(task'[t].calls) = Len(task[t].calls) + 1]_vars

\* a payment request went on to the notification task after its CRM mirror
\* call had failed, and was answered
C31_Witness ==
  \E t \in Tasks :
    /\ Done(t, "payment")
    /\ HasCall(t, "recordInvoicePayment", FALSE)
    /\ Attempted(t, "createTask")
    /\ Cardinality({i \in 1..Len(task[t].calls) :
         task[t].calls[i].op = "recordInvoicePayment"}) = 1

\* the calls of createGHLTask an invocation record holds, with outcome ok
TaskCreations(r, ok) ==
  {i \in 1..Len(r.calls) : r.calls[i] = [op |-> "createGHLTask", ok |-> ok]}

\* C32: (a) the stage-changed handler calls createGHLTask for the configured
\* tasks in ascending task number, one call per task; (b) a turn of the loop,
\* failed or not, goes on to the next task and the request ends only after
\* the last one; (c) a request that read the task list is answered 200 after
\* one attempt per configured task, and the reported tasksCreated is the
\* number of successful creations, between 0 and the number of tasks.
C32_EveryStageTaskAttempted ==
  /\ [](\A t \in Tasks :
          task[t].kind = "stageChanged"
            => /\ \A i \in 1..Len(task[t].tried) : task[t].tried[i] = i
               /\ \A i \in 1..Len(task[t].queue) :
                    task[t].queue[i] = Len(task[t].tried) + i
               /\ Len(task[t].tried) =
                    Cardinality(TaskCreations(task[t], TRUE))
                      + Cardinality(TaskCreations(task[t], FALSE))
               /\ task[t].created = Cardinality(TaskCreations(task[t], TRUE))
               /\ (task[t].pc = "done" /\ HasCall(t, "getTasksForStage", TRUE))
                    => /\ task[t].resp.code = 200
                       /\ task[t].queue = <<>>
                       /\ task[t].created \in 0..Len(task[t].tried))
  /\ [][\A t \in Tasks :
          (task[t].pc = "sc_create" /\ task'[t] # task[t])
            => /\ task[t].queue # <<>>
               /\ task'[t].tried = Append(task[t].tried, Head(task[t].queue))
               /\ task'[t].queue = Tail(task[t].queue)
               /\ task'[t].pc = IF task'[t].queue = <<>> THEN "done" ELSE "sc_create"
               /\ crmTasks' = crmTasks + (IF LastCallOk(task'[t]) THEN 1 ELSE 0)]_vars

\* a request was answered with tasksCreated = 1 of 2: the first task failed,
\* the second was created
C32_Witness ==
  \E t \in Tasks :
    /\ Done(t, "stageChanged")
    /\ task[t].resp.code = 200
    /\ task[t].tried = <<1, 2>>
    /\ task[t].calls[2] = [op |-> "createGHLTask", ok |-> FALSE]
    /\ task[t].calls[3] = [op |-> "createGHLTask", ok |-> TRUE]
    /\ task[t].created = 1

\* C33: no step clears or changes the billing invoice id of a ledger row
\* that carries one, so that a later PaymentReceived for that id finds the
\* row.
C33_BillingInvoiceIdNeverCleared ==
  [][\A r \in invoices :
       r.confInv # 0 => \E q \in invoices' : q.id = r.id /\ q.confInv = r.confInv]_vars

\* C34: when an invoice-created request has been answered "created in both
\* systems", the ledger row of its CRM invoice id holds the identifiers of
\* the client, the matter and the payment link the billing system returned.
C34_SuccessMeansBillingIdsStored ==
  \A t \in Tasks :
    (Done(t, "invoice") /\ task[t].resp.msg = CreatedInBoth)
      => \E r \in RowsByGhl(task[t].ev.ghl) :
           /\ r.confInv # 0 /\ r.confClient # 0 /\ r.confMatter # 0
           /\ [id |-> r.confInv, ghl |-> r.ghl] \in cfLinks
           /\ PaymentUrl(r.confInv) = task[t].resp.url

\* C35: when a payment request has been answered "processed successfully",
\* the payments table holds a row for its billing payment id.
C35_SuccessMeansPaymentRowStored ==
  \A t \in Tasks :
    (Done(t, "payment") /\ task[t].resp = PaymentProcessed)
      => PaymentRowsById(task[t].ev.pid) # {}

\* the sum of the amounts of a set of payment rows
RECURSIVE SumOfAmounts(_)
SumOfAmounts(rows) ==
  IF rows = {}
    THEN 0
    ELSE LET r == CHOOSE x \in rows : TRUE
         IN r.amount + SumOfAmounts(rows \ {r})

\* C36: when a payment request has been processed with every call going
\* through, the amount_paid of the invoice it paid equals the sum of the
\* amounts of the payment rows of that invoice, also when an earlier payment
\* with another payment id had been processed for the invoice.
C36_AmountPaidIsSumOfPayments ==
  \A t \in Tasks :
    (Done(t, "payment") /\ task[t].resp.code = 200 /\ AllCallsOk(t))
      => \A r \in RowsByConfido(task[t].ev.confInv) :
           r.amountPaid = SumOfAmounts({q \in payments : q.confInv = r.confInv})

\* C37: a replay of a final TaskCompleted event whose first delivery moved
\* the opportunity issues no stage update and leaves every opportunity where
\* the first delivery left it.
C37_TaskReplayMovesAtMostOnce ==
  \A t \in Tasks :
    (/\ Done(t, "taskCompleted") /\ task[t].replay
     /\ task[t].ev.title = FinalTaskTitle
     /\ task[t].preResp.msg = "Opportunity moved")
      => /\ ~Attempted(t, "updateOpportunityStage")
         /\ StagesNow = task[t].pre.stages

\* C38: when the survey handler comes to its stage update and the
\* opportunity is no longer in the expected pipeline/stage, it issues no
\* update and the opportunity stays where the other process put it.
C38_SurveyUpdateRespectsAdvance ==
  [][\A t \in Tasks :
       (/\ task[t].pc = "sv_update"
        /\ ~InExpectedStage(task[t].opp)
        /\ task'[t] # task[t])
         => /\ \A i \in 1..Len(task'[t].calls) :
                 task'[t].calls[i].op # "updateOpportunityStage"
            /\ opps' = opps]_vars

\* C39: the billing system holds at most one payment link per CRM invoice
\* id, and an invoice-created request for an id whose billing artifacts
\* existed when it arrived creates no further client, matter or payment link.
C39_OneBillingArtifactSetPerInvoice ==
  /\ \A g \in GhlIds : Cardinality({l \in cfLinks : l.ghl = g}) <= 1
  /\ \A t \in Tasks :
       (task[t].kind = "invoice" /\ \E l \in task[t].pre.links : l.ghl = task[t].ev.ghl)
         => /\ cfClients = task[t].pre.clients
            /\ cfMatters = task[t].pre.matters
            /\ cfLinks = task[t].pre.links

\* C40: (a) a payment request writes the ledger only when the signature of
\* its payload was verified: one that has written the invoice row or a
\* payments row carries a valid signature; (b) a payload whose signature
\* check fails is answered 401 at once, with no gateway call and the ledger
\* and the CRM as it found them.
C40_LedgerChangesOnlyWhenSignatureVerified ==
  \A t \in Tasks :
    task[t].kind = "payment"
      => /\ (HasCall(t, "updateInvoicePaymentStatus", TRUE) \/ HasCall(t, "savePayment", TRUE))
              => task[t].ev.sig = "valid"
         /\ task[t].ev.sig = "invalid"
              => /\ task[t].pc = "done" /\ task[t].resp.code = 401
                 /\ task[t].calls = <<>>
                 /\ invoices = task[t].pre.invoices /\ payments = task[t].pre.payments
                 /\ crmPayments = task[t].pre.crmPayments
                 /\ crmTasks = task[t].pre.crmTasks

====
